---- MODULE Spec2Model ----
(***************************************************************************)
(* A model of linstr's InstrumentGraph (src/src/graph.rs) and of the       *)
(* InstrumentContainer it drives (src/src/lib.rs), with the Constant,      *)
(* Mixer and Delay instruments of src/src/instrument/mod.rs and the        *)
(* LinearEnvelope of src/src/instrument/envelope.rs in its slots.          *)
(*                                                                         *)
(* Indices are 0-based as in the source.  Option<T> is a sequence of       *)
(* length 0 (None) or 1 (Some).  A MusicalValue (f32) of Constant, Mixer   *)
(* and Delay is an integer: they only copy and add samples, and every sum  *)
(* stays small.  The f32 values of the envelope are exact fractions        *)
(* [n, d]; rounding is not modelled.  A NoteCommand is its command_type    *)
(* and velocity; no modelled instrument reads the note.  A panic is the    *)
(* terminal state pc = "panicked".                                         *)
(***************************************************************************)
EXTENDS Integers, Sequences, FiniteSets, TLC

\* ------------------------------------------------------------ capacities
\* const generic parameters of InstrumentGraph (graph.rs:21), instantiated small
SIZE == 2
CONTROL_SIZE == 2
CONNECTION_SIZE == 2
OUTPUT_CHANNELS == 1
\* lib.rs:45 sets 128; the block loops are uniform in the length
STANDARD_BLOCK_SIZE == 2
\* lib.rs:46 sets 128
STANDARD_ELEMENT_COUNT == 2
\* usize::MAX, the "unused" entry of the process order (graph.rs:143); any
\* value that is no slot index does
USIZE_MAX == 2147483647

\* f32 scaled down: a significand of FloatPrecision bits (f32 has 24) and no
\* value finer than 2^-FloatFractionBits (f32: 2^-149)
FloatPrecision == 3
FloatFractionBits == 6
\* the sampling rate given to SineOscillator::new
SamplingRate == 4
\* the largest delay a Delay is given, standing for u16::MAX: its buffer has
\* MaxDelay + 1 cells
MaxDelay == 3
\* the value given to Constant::new and the delay given to Delay::new
ConstantValue == 5
DelayTime == 1
\* process_next calls modelled, and setup calls of each kind accepted
MaxSteps == 2
MaxValueConnections == 2
MaxDependencies == 3
MaxDestinations == 2
\* the envelopes constructed: at most MaxPoints segments of at most
\* MaxPointTime samples each, a release of at most MaxReleaseTime samples
MaxPoints == 3
MaxPointTime == 2
MaxReleaseTime == 3
\* process_block calls made on an envelope
MaxBlocks == 3
\* feed calls made on a container between two of its process_next calls
MaxFeeds == 2
\* lines the input thread reads, and fetch_next_stream calls made on a MyControl
MaxTriggers == 3
MaxFetches == 4

None == <<>>
Some(x) == <<x>>
IsSome(o) == o # None
Unwrap(o) == o[1]

Slots == 0 .. (SIZE - 1)
ControlSlots == 0 .. (CONTROL_SIZE - 1)
ConnectionEntries == 0 .. (CONNECTION_SIZE - 1)
Channels == 0 .. (OUTPUT_CHANNELS - 1)
Samples == 0 .. (STANDARD_BLOCK_SIZE - 1)
Elements == 0 .. (STANDARD_ELEMENT_COUNT - 1)

ZeroBlock == [k \in Samples |-> 0]

VARIABLES
    instruments,                  \* graph.instruments: Option<kind> per slot
    control_sources,              \* graph.control_sources: Option<kind> per slot
    instruments_control_sources,  \* Option<ControlStreamConnection> per instrument slot
    value_stream_connections,     \* [slot][entry] Option<ValueStreamConnection>
    destination_connections,      \* [channel][entry] Option<DestinationConnection>
    output_channels,              \* [channel] block
    container_input,              \* per slot: the container's input.value_streams
    container_output,             \* per slot: the container's output.value_streams[0]
    container_control,            \* per slot: the container's input.control_streams
    container_instrument,         \* per slot: the wrapped instrument's own state
    runs,                         \* per slot: process_next calls on its container
                                  \* in the current graph step
    fetches,                      \* per control slot: fetch_next_stream calls so far
    control_stream,               \* per control slot: the source's current block
    pc,                           \* position of the running call
    returned,                     \* Option: the slot index the last add_* call returned
    call,                         \* the public call in progress
    panic_at,                     \* the call that panicked
    order, order_index, processed,\* locals of get_instrument_process_order
    scans,                        \* passes of its inner for loop started
    oi,                           \* index of process_next's loop over the order
    steps,                        \* process_next calls completed
    container,                    \* Option: a container its maker still holds
    feeds,                        \* the feed calls on it since its last process_next
    seen,                         \* Option: the input its last process_block was given
    blocks,                       \* process_block calls made outside a graph
    envelope,                     \* Option: a LinearEnvelope called directly
    envelope_pc,                  \* position of its process_block call
    envelope_input,               \* input.control_streams[0] of the call
    envelope_output,              \* output.value_streams[0]
    envelope_i,                   \* commands of the block applied
    envelope_k,                   \* samples of the block emitted
    played,                       \* samples emitted in each segment, and in the
                                  \* release (at POINTS + 1), since the last NoteOn
    release_gain,                 \* current_gain when the last NoteOff was taken
    delay_line,                   \* Option: a Delay called directly
    delay_input,                  \* input.value_streams[0] of its process_block call
    delay_i,                      \* samples of the block processed
    delay_fed,                    \* every input sample it has processed
    delay_got,                    \* every output sample it has produced
    oscillator,                   \* Option: a SineOscillator called directly
    osc_pc,                       \* position of its process_block call
    osc_input,                    \* input.value_streams of the call
    osc_output,                   \* output.value_streams[0]
    osc_i,                        \* samples of the block emitted
    signal,                       \* the static SIGNAL: AtomicBool of example2.rs
    my_control,                   \* Option: the MyControl holding a reference to it
    fetch_pc,                     \* position of its fetch_next_stream call
    stored,                       \* SIGNAL.store(true) calls of the input thread
    fetched,                      \* fetch_next_stream calls returned
    unread                        \* a trigger was stored, and no fetch_next_stream
                                  \* ending after it has loaded true

vars == <<instruments, control_sources, instruments_control_sources,
          value_stream_connections, destination_connections, output_channels,
          container_input, container_output, container_control,
          container_instrument, runs, fetches, control_stream,
          pc, returned, call, panic_at, order, order_index, processed, scans, oi, steps,
          container, feeds, seen, blocks, envelope, envelope_pc, envelope_input,
          envelope_output, envelope_i, envelope_k, played, release_gain,
          delay_line, delay_input, delay_i, delay_fed, delay_got,
          oscillator, osc_pc, osc_input, osc_output, osc_i,
          signal, my_control, fetch_pc, stored, fetched, unread>>

graph_vars == <<instruments, control_sources, instruments_control_sources,
                value_stream_connections, destination_connections>>
container_vars == <<container_input, container_output, container_control,
                    container_instrument, runs>>
source_vars == <<fetches, control_stream>>
held_vars == <<container, feeds, seen>>
envelope_vars == <<envelope, envelope_pc, envelope_input, envelope_output,
                   envelope_i, envelope_k, played, release_gain>>
delay_vars == <<delay_line, delay_input, delay_i, delay_fed, delay_got>>
osc_vars == <<oscillator, osc_pc, osc_input, osc_output, osc_i>>
flag_vars == <<signal, my_control, fetch_pc, stored, fetched, unread>>
bench_vars == <<held_vars, blocks, envelope_vars, delay_vars, osc_vars, flag_vars>>
order_vars == <<order, order_index, processed, scans>>

\* ------------------------------------------------------------ instruments
InstrumentKinds == {"Constant", "Mixer", "Delay"}

\* IN_VALUE_STREAMS of each impl Instrument<IN, CTL, OUT>
InValueStreams(kind) ==
    CASE kind = "Constant" -> 0
      [] kind = "Mixer" -> 2
      [] kind = "Delay" -> 1
      [] kind = "LinearEnvelope" -> 0

\* IN_CONTROL_STREAMS: 1 for the envelope, 0 for the instruments of mod.rs
InControlStreams(kind) == IF kind = "LinearEnvelope" THEN 1 ELSE 0

OutValueStreams(kind) == 1

\* ------------------------------------------------------------ commands
\* the velocities sent with a NoteOn: full, and a partial one
Velocities == {255, 51}

NoopCommand == [command_type |-> "Noop", velocity |-> 0]
NoteOnCommand(velocity) == [command_type |-> "NoteOn", velocity |-> velocity]
NoteOffCommand == [command_type |-> "NoteOff", velocity |-> 0]

NoteCommands == {NoopCommand, NoteOffCommand} \cup {NoteOnCommand(v) : v \in Velocities}

\* the slices of len commands, indexed from 0
CommandSlices(commands, len) == [0 .. (len - 1) -> commands]

NoopStream == [e \in Elements |-> NoopCommand]

\* ------------------------------------------------------------ f32 as fractions
RECURSIVE Gcd(_, _)
Gcd(a, b) == IF b = 0 THEN a ELSE Gcd(b, a % b)

\* n / d in lowest terms, d > 0
Frac(n, d) ==
    LET g == Gcd(IF n < 0 THEN 0 - n ELSE n, d)
    IN [n |-> n \div g, d |-> d \div g]

Zero == Frac(0, 1)
One == Frac(1, 1)
FAdd(a, b) == Frac(a.n * b.d + b.n * a.d, a.d * b.d)
FSub(a, b) == Frac(a.n * b.d - b.n * a.d, a.d * b.d)
FMul(a, b) == Frac(a.n * b.n, a.d * b.d)

\* ------------------------------------------------------------ LinearEnvelope
\* the array holding the elements of a sequence, indexed from 0
Array(seq) == [p \in 0 .. (Len(seq) - 1) |-> seq[p + 1]]

\* LinearEnvelope::new
LinearEnvelopeNew(point_times, point_gains, release_time) ==
    [point_times |-> Array(point_times),
     point_gains |-> [p \in 0 .. (Len(point_gains) - 1) |-> Frac(point_gains[p + 1], 1)],
     release_time |-> release_time,
     current_point |-> 0,
     current_time |-> 0,
     current_note_gain |-> Zero,
     current_gain |-> Zero]

\* the const generic POINTS of an envelope
POINTS(self) == Cardinality(DOMAIN self.point_times)

\* a NoteOn that never skips an instantaneous segment
FirstPointNoSkip(self, i) == i

RECURSIVE FirstPoint(_, _)
\* envelope.rs:91-94: while POINTS > i && point_times[i - 1] == 0 { i += 1 }
FirstPoint(self, i) ==
    IF POINTS(self) > i /\ self.point_times[i - 1] = 0
    THEN FirstPoint(self, i + 1)
    ELSE i

\* a NoteOn that stores the segment after the one it chose
NoteOnPastChosen(self, velocity) ==
    LET i == FirstPoint(self, 1) IN
    [self EXCEPT !.current_time = 0,
                 !.current_note_gain = Frac(velocity, 255),
                 !.current_gain = IF i > 1 THEN self.point_gains[i - 2] ELSE Zero,
                 !.current_point = i + 1]

\* envelope.rs:86-100
NoteOn(self, velocity) ==
    LET i == FirstPoint(self, 1) IN
    [self EXCEPT !.current_time = 0,
                 !.current_note_gain = Frac(velocity, 255),
                 !.current_gain = IF i > 1 THEN self.point_gains[i - 2] ELSE Zero,
                 !.current_point = i]

\* a NoteOff that starts a release from every state
NoteOffAlways(self) == [self EXCEPT !.current_point = POINTS(self) + 1, !.current_time = 0]

\* envelope.rs:101-106
NoteOff(self) ==
    IF self.current_point > 0 /\ self.current_point <= POINTS(self)
    THEN [self EXCEPT !.current_point = POINTS(self) + 1, !.current_time = 0]
    ELSE self

\* envelope.rs:85-109: the match on one command
ApplyCommand(self, note_command) ==
    CASE note_command.command_type = "NoteOn" -> NoteOn(self, note_command.velocity)
      [] note_command.command_type = "NoteOff" -> NoteOff(self)
      [] OTHER -> self

\* a command loop that walks the block from its last element down
NoteCommandAtFromEnd(stream, i) == stream[STANDARD_ELEMENT_COUNT - 1 - i]

\* envelope.rs:84: let note_command = &input.control_streams[0][i]
NoteCommandAt(stream, i) == stream[i]

RECURSIVE ApplyCommands(_, _, _)
\* envelope.rs:83-110: the commands i .. CONTROL_ELEMENTS-1 of control stream 0
ApplyCommands(self, stream, i) ==
    IF i = STANDARD_ELEMENT_COUNT THEN self
    ELSE ApplyCommands(ApplyCommand(self, NoteCommandAt(stream, i)), stream, i + 1)

RECURSIVE SkipPoints(_)
\* envelope.rs:141-143: while current_point < POINTS && point_times[current_point] == 0
SkipPoints(self) ==
    IF self.current_point < POINTS(self) /\ self.point_times[self.current_point] = 0
    THEN SkipPoints([self EXCEPT !.current_point = @ + 1])
    ELSE self.current_point

\* a playing segment whose interpolation is not clamped at the segment's end
PlayingSampleUnclamped(self) ==
    LET prev_point_gain == IF self.current_point > 1
                           THEN self.point_gains[self.current_point - 2] ELSE Zero
        point_time == self.point_times[self.current_point - 1]
        point_gain == self.point_gains[self.current_point - 1]
        gain_diff == FSub(point_gain, prev_point_gain)
        gain == IF point_time = 0 THEN point_gain
                ELSE FAdd(prev_point_gain,
                          FMul(gain_diff, Frac(self.current_time, point_time)))
        ticked == [self EXCEPT !.current_gain = gain, !.current_time = @ + 1]
        moved == IF ticked.current_point < POINTS(self)
                 THEN [ticked EXCEPT !.current_point = @ + 1, !.current_time = 0]
                 ELSE ticked
    IN [self |-> IF ticked.current_time >= point_time
                 THEN [moved EXCEPT !.current_point = SkipPoints(moved)]
                 ELSE ticked,
        sample |-> FMul(gain, self.current_note_gain)]

\* envelope.rs:116-144: one sample of a playing segment
PlayingSample(self) ==
    LET prev_point_gain == IF self.current_point > 1
                           THEN self.point_gains[self.current_point - 2] ELSE Zero
        point_time == self.point_times[self.current_point - 1]
        point_gain == self.point_gains[self.current_point - 1]
        gain_diff == FSub(point_gain, prev_point_gain)
        clamped == IF self.current_time < point_time THEN self.current_time ELSE point_time
        gain == IF point_time = 0 THEN point_gain
                ELSE FAdd(prev_point_gain, FMul(gain_diff, Frac(clamped, point_time)))
        ticked == [self EXCEPT !.current_gain = gain, !.current_time = @ + 1]
        moved == IF ticked.current_point < POINTS(self)
                 THEN [ticked EXCEPT !.current_point = @ + 1, !.current_time = 0]
                 ELSE ticked
    IN [self |-> IF ticked.current_time >= point_time
                 THEN [moved EXCEPT !.current_point = SkipPoints(moved)]
                 ELSE ticked,
        sample |-> FMul(gain, self.current_note_gain)]

\* a release that does not set the gain of an envelope without segments
ReleasingSampleKeepGain(self) ==
    LET gain == IF self.release_time = 0 THEN Zero
                ELSE FMul(self.current_gain,
                          FSub(One, Frac(self.current_time, self.release_time)))
        ticked == [self EXCEPT !.current_time = @ + 1]
    IN [self |-> IF ticked.current_time >= ticked.release_time
                 THEN [ticked EXCEPT !.current_point = 0, !.current_time = 0]
                 ELSE ticked,
        sample |-> FMul(gain, self.current_note_gain)]

\* a release that lasts one sample longer than release_time
ReleasingSampleLate(self) ==
    LET held == IF POINTS(self) = 0 THEN [self EXCEPT !.current_gain = One] ELSE self
        gain == IF held.release_time = 0 THEN Zero
                ELSE FMul(held.current_gain,
                          FSub(One, Frac(held.current_time, held.release_time)))
        ticked == [held EXCEPT !.current_time = @ + 1]
    IN [self |-> IF ticked.current_time > ticked.release_time
                 THEN [ticked EXCEPT !.current_point = 0, !.current_time = 0]
                 ELSE ticked,
        sample |-> FMul(gain, held.current_note_gain)]

\* envelope.rs:146-157: one sample of the release
ReleasingSample(self) ==
    LET held == IF POINTS(self) = 0 THEN [self EXCEPT !.current_gain = One] ELSE self
        gain == IF held.release_time = 0 THEN Zero
                ELSE FMul(held.current_gain,
                          FSub(One, Frac(held.current_time, held.release_time)))
        ticked == [held EXCEPT !.current_time = @ + 1]
    IN [self |-> IF ticked.current_time >= ticked.release_time
                 THEN [ticked EXCEPT !.current_point = 0, !.current_time = 0]
                 ELSE ticked,
        sample |-> FMul(gain, held.current_note_gain)]

\* an off state that goes on emitting the last gain
SampleStaleWhenOff(self) ==
    IF self.current_point = 0
    THEN [self |-> self, sample |-> FMul(self.current_gain, self.current_note_gain)]
    ELSE IF self.current_point <= POINTS(self) THEN PlayingSample(self)
    ELSE ReleasingSample(self)

\* envelope.rs:113-158: the body of `for i in 0..VALUE_BLOCK`
Sample(self) ==
    IF self.current_point = 0 THEN [self |-> self, sample |-> Zero]
    ELSE IF self.current_point <= POINTS(self) THEN PlayingSample(self)
    ELSE ReleasingSample(self)

RECURSIVE SampleLoop(_, _, _)
\* envelope.rs:112-159: the samples i .. VALUE_BLOCK-1
SampleLoop(self, out, i) ==
    IF i = STANDARD_BLOCK_SIZE THEN [state |-> self, output |-> out]
    ELSE LET r == Sample(self)
         IN SampleLoop(r.self, [out EXCEPT ![i] = r.sample], i + 1)

\* LinearEnvelope::process_block: all commands, then all samples
LinearEnvelopeProcessBlock(self, control, out) ==
    SampleLoop(ApplyCommands(self, control[0], 0), out, 0)

\* ------------------------------------------------------------ floating point
RECURSIVE Pow2(_)
Pow2(k) == IF k = 0 THEN 1 ELSE 2 * Pow2(k - 1)

FLess(a, b) == a.n * b.d < b.n * a.d

RECURSIVE Exponent(_, _, _)
\* the least j with num / den < 2^(FloatPrecision + j)
Exponent(num, den, j) ==
    IF num < Pow2(FloatPrecision + j) * den THEN j ELSE Exponent(num, den, j + 1)

\* N / D rounded to the nearest integer, a tie to the even one
NearestEven(N, D) ==
    LET fl == N \div D
        r == N % D
    IN IF 2 * r < D THEN fl
       ELSE IF 2 * r > D THEN fl + 1
       ELSE IF fl % 2 = 0 THEN fl ELSE fl + 1

\* the value a floating-point operation returns for the exact result x:
\* the nearest value with a significand of FloatPrecision bits
FRound(x) ==
    LET num == (IF x.n < 0 THEN 0 - x.n ELSE x.n) * Pow2(FloatFractionBits)
        j == Exponent(num, x.d, 0)
        m == NearestEven(num, x.d * Pow2(j)) * Pow2(j)
    IN Frac(IF x.n < 0 THEN 0 - m ELSE m, Pow2(FloatFractionBits))

FloatAdd(a, b) == FRound(FAdd(a, b))
FloatSub(a, b) == FRound(FSub(a, b))
FloatDiv(a, b) == FRound(Frac(a.n * b.d * (IF b.n < 0 THEN 0 - 1 ELSE 1), a.d * (IF b.n < 0 THEN 0 - b.n ELSE b.n)))

\* ------------------------------------------------------------ SineOscillator
\* SineOscillator::new, oscillators.rs:23-29
SineOscillatorNew(sampling_rate) == [sampling_rate |-> sampling_rate, phase |-> Zero]

\* oscillators.rs:40-42: self.phase += frequency / sampling_rate + input[1][i]
Accumulate(self, frequency, phase) ==
    LET phase_increment == FloatDiv(frequency, FRound(Frac(self.sampling_rate, 1)))
    IN [self EXCEPT !.phase = FloatAdd(@, FloatAdd(phase_increment, phase))]

\* libm::sinf(2.0 * PI * phase), kept as the phase it is taken of
Sinf2Pi(phase) == [sinf_2pi_of |-> phase]

\* ------------------------------------------------------------ Delay
\* Delay::new, mod.rs:83-90: buffer [0.0; 65536], one cell for each u16 and 0
DelayNew(delay) ==
    [delay |-> delay, buffer |-> [b \in 0 .. MaxDelay |-> 0], buffer_index |-> 0]

\* a delay line that wraps one cell early
DelaySampleShort(self, x) ==
    LET written == [self.buffer EXCEPT ![self.buffer_index] = x]
        next == self.buffer_index + 1
        idx == IF next >= self.delay THEN 0 ELSE next
    IN [self |-> [self EXCEPT !.buffer = written, !.buffer_index = idx],
        sample |-> written[idx]]

\* mod.rs:101-108: the body of `for i in 0..VALUE_BLOCK` for input sample x
DelaySample(self, x) ==
    LET written == [self.buffer EXCEPT ![self.buffer_index] = x]
        next == self.buffer_index + 1
        idx == IF next > self.delay THEN 0 ELSE next
    IN [self |-> [self EXCEPT !.buffer = written, !.buffer_index = idx],
        sample |-> written[idx]]

\* ------------------------------------------------------------ containers
\* Constant::new / Mixer::new / Delay::new, and the envelope of
\* example2.rs:77, LinearEnvelope::<1>::new([0], [1.0], release)
NewInstrument(kind) ==
    CASE kind = "Delay" -> DelayNew(DelayTime)
      [] kind = "LinearEnvelope" -> LinearEnvelopeNew(<<0>>, <<1>>, MaxReleaseTime)
      [] OTHER -> [buffer |-> <<>>, buffer_index |-> 0]

\* InstrumentContainerImpl::new: zeroed input streams
NewInput(kind) == [d \in 0 .. (InValueStreams(kind) - 1) |-> ZeroBlock]

\* InstrumentContainerImpl::new: control streams of Noop
NewControl(kind) == [j \in 0 .. (InControlStreams(kind) - 1) |-> NoopStream]

\* InstrumentContainerImpl::new: the zeroed output stream
NewOutput(kind) ==
    IF kind = "LinearEnvelope" THEN [k \in Samples |-> Zero] ELSE ZeroBlock

\* container(instrument), lib.rs:226-236
NewContainer(kind) ==
    [kind |-> kind,
     instrument |-> NewInstrument(kind),
     value_streams |-> NewInput(kind),
     control_streams |-> NewControl(kind),
     output |-> NewOutput(kind)]

RECURSIVE MixerSum(_, _, _)
\* Mixer: output[i] = 0.0; for j in 0..INPUT_STREAMS { output[i] += input[j][i] }
MixerSum(input, j, i) ==
    IF j < 0 THEN 0 ELSE MixerSum(input, j - 1, i) + input[j][i]

RECURSIVE DelayLoop(_, _, _, _)
\* Delay::process_block, samples i .. VALUE_BLOCK-1
DelayLoop(st, input, out, i) ==
    IF i = STANDARD_BLOCK_SIZE THEN [state |-> st, output |-> out]
    ELSE LET r == DelaySample(st, input[0][i])
         IN DelayLoop(r.self, input, [out EXCEPT ![i] = r.sample], i + 1)

\* Instrument::process_block of the three kinds: the new state and output block
InstrumentProcessBlock(kind, st, input, out) ==
    CASE kind = "Constant" ->
           [state |-> st, output |-> [i \in Samples |-> ConstantValue]]
      [] kind = "Mixer" ->
           [state |-> st,
            output |-> [i \in Samples |-> MixerSum(input, InValueStreams(kind) - 1, i)]]
      [] kind = "Delay" -> DelayLoop(st, input, out, 0)

\* the process_block of the wrapped instrument, lib.rs:152
ContainerProcessBlock(kind, st, input, control, out) ==
    IF kind = "LinearEnvelope"
    THEN LinearEnvelopeProcessBlock(st, control, out)
    ELSE InstrumentProcessBlock(kind, st, input, out)

\* the value accumulators are left as they were fed
ClearInputKeep(input) == input

\* InstrumentContainerImpl::clear_input (value streams)
ClearInput(input) == [d \in DOMAIN input |-> ZeroBlock]

\* the control streams are left as they were fed
ClearControlKeep(control) == control

\* InstrumentContainerImpl::clear_input (control streams)
ClearControl(control) == [j \in DOMAIN control |-> NoopStream]

\* only the first command of the slice is stored
FeedControlStreamFirstOnly(control, stream_index, stream) ==
    [control EXCEPT ![stream_index] =
        [e \in Elements |-> IF e = 0 /\ e \in DOMAIN stream THEN stream[e] ELSE @[e]]]

\* InstrumentContainerImpl::feed_control_stream: the first min(len, COUNT)
\* elements are overwritten
FeedControlStream(control, stream_index, stream) ==
    [control EXCEPT ![stream_index] =
        [e \in Elements |-> IF e \in DOMAIN stream THEN stream[e] ELSE @[e]]]

\* the fed block replaces the input stream instead of adding to it
FeedValueStreamOverwrite(input, stream_index, stream) ==
    [input EXCEPT ![stream_index] =
        [k \in Samples |-> IF k \in DOMAIN stream THEN stream[k] ELSE @[k]]]

\* InstrumentContainerImpl::feed_value_stream: additive over min(len, BLOCK) samples
FeedValueStream(input, stream_index, stream) ==
    [input EXCEPT ![stream_index] =
        [k \in Samples |-> IF k \in DOMAIN stream THEN @[k] + stream[k] ELSE @[k]]]

\* ------------------------------------------------------------ construction
\* InstrumentGraph::new, and no call in progress
Init ==
    /\ instruments = [i \in Slots |-> None]
    /\ control_sources = [c \in ControlSlots |-> None]
    /\ instruments_control_sources = [i \in Slots |-> None]
    /\ value_stream_connections = [i \in Slots |-> [j \in ConnectionEntries |-> None]]
    /\ destination_connections = [o \in Channels |-> [j \in ConnectionEntries |-> None]]
    /\ output_channels = [o \in Channels |-> ZeroBlock]
    /\ container_input = [i \in Slots |-> <<>>]
    /\ container_output = [i \in Slots |-> ZeroBlock]
    /\ container_control = [i \in Slots |-> <<>>]
    /\ container_instrument = [i \in Slots |-> NewInstrument("Constant")]
    /\ runs = [i \in Slots |-> 0]
    /\ fetches = [c \in ControlSlots |-> 0]
    /\ control_stream = [c \in ControlSlots |-> <<>>]
    /\ pc = "idle"
    /\ returned = None
    /\ call = "none"
    /\ panic_at = "none"
    /\ order = [p \in Slots |-> USIZE_MAX]
    /\ order_index = 0
    /\ processed = [i \in Slots |-> FALSE]
    /\ scans = 0
    /\ oi = 0
    /\ steps = 0
    /\ container = None
    /\ feeds = <<>>
    /\ seen = None
    /\ blocks = 0
    /\ envelope = None
    /\ envelope_pc = "idle"
    /\ envelope_input = NoopStream
    /\ envelope_output = [k \in Samples |-> Zero]
    /\ envelope_i = 0
    /\ envelope_k = 0
    /\ played = <<>>
    /\ release_gain = Zero
    /\ delay_line = None
    /\ delay_input = ZeroBlock
    /\ delay_i = STANDARD_BLOCK_SIZE
    /\ delay_fed = <<>>
    /\ delay_got = <<>>
    /\ oscillator = None
    /\ osc_pc = "idle"
    /\ osc_input = [frequency |-> [k \in Samples |-> Zero],
                    phase |-> [k \in Samples |-> Zero]]
    /\ osc_output = [k \in Samples |-> Zero]
    /\ osc_i = 0
    /\ signal = FALSE
    /\ my_control = None
    /\ fetch_pc = "idle"
    /\ stored = 0
    /\ fetched = 0
    /\ unread = FALSE

\* wiring and stepping are disjoint phases: setup calls come before the first step
InSetup == pc = "idle" /\ steps = 0

Panic(where) ==
    /\ pc' = "panicked"
    /\ panic_at' = where

\* the panics of process_next, by what raises them
UnwrapPanic == "process_next: unwrap on None"
SlotIndexPanic == "process_next: slot index out of bounds"
StreamIndexPanic == "process_next: stream index out of bounds"
\* graph.rs:117: the capacity error of connect_value_stream
NoMoreSpacePanic == "connect_value_stream: no more space"

\* the highest index holding None, or -1
LastFree(arr, idxs) ==
    IF \E i \in idxs : arr[i] = None
    THEN CHOOSE i \in idxs : arr[i] = None /\ \A k \in idxs : arr[k] = None => i >= k
    ELSE -1

\* the lowest index holding None, and the first index when none does
FirstFreeOrFirst(arr, idxs) ==
    IF \E i \in idxs : arr[i] = None
    THEN CHOOSE i \in idxs : arr[i] = None /\ \A k \in idxs : arr[k] = None => i <= k
    ELSE 0

\* the lowest index holding None, and the last index when none does
FirstFreeOrLast(arr, idxs) ==
    IF \E i \in idxs : arr[i] = None
    THEN CHOOSE i \in idxs : arr[i] = None /\ \A k \in idxs : arr[k] = None => i <= k
    ELSE CHOOSE i \in idxs : \A k \in idxs : i >= k

\* the lowest index holding None, or -1
FirstFree(arr, idxs) ==
    IF \E i \in idxs : arr[i] = None
    THEN CHOOSE i \in idxs : arr[i] = None /\ \A k \in idxs : arr[k] = None => i <= k
    ELSE -1

\* ------------------------------------------------------------ setup calls
add_instrument(kind) ==
    /\ InSetup
    /\ LET i == FirstFree(instruments, Slots) IN
       IF i >= 0
       THEN /\ instruments' = [instruments EXCEPT ![i] = Some(kind)]
            /\ container_input' = [container_input EXCEPT ![i] = NewInput(kind)]
            /\ container_output' = [container_output EXCEPT ![i] = NewOutput(kind)]
            /\ container_control' = [container_control EXCEPT ![i] = NewControl(kind)]
            /\ container_instrument' =
                   [container_instrument EXCEPT ![i] = NewInstrument(kind)]
            /\ returned' = Some(i)
            /\ UNCHANGED <<pc, panic_at, runs>>
       ELSE /\ Panic("add_instrument")
            /\ UNCHANGED <<instruments, container_vars, returned>>
    /\ UNCHANGED <<control_sources, instruments_control_sources,
                   value_stream_connections, destination_connections,
                   output_channels, source_vars, call, order_vars, oi, steps,
                   bench_vars>>

\* The ControlStreamSource implementations (lib.rs:238-241) registered: a
\* "Source" holds one Noop for ever, a "Sequencer" has any block of one
\* command or of a full STANDARD_ELEMENT_COUNT after each fetch_next_stream.
ControlSourceKinds == {"Source", "Sequencer"}

\* the block a source holds before its first fetch_next_stream (example2.rs:14-23)
InitialStream == [e \in 0 .. 0 |-> NoopCommand]

\* the blocks a source of the kind may hold after fetch_next_stream
FetchedStreams(kind) ==
    IF kind = "Sequencer"
    THEN CommandSlices({NoteOnCommand(255), NoteOffCommand}, 1)
         \cup CommandSlices({NoteOnCommand(255), NoteOffCommand}, STANDARD_ELEMENT_COUNT)
    ELSE {InitialStream}

add_control_source(kind) ==
    /\ InSetup
    /\ LET i == FirstFree(control_sources, ControlSlots) IN
       IF i >= 0
       THEN /\ control_sources' = [control_sources EXCEPT ![i] = Some(kind)]
            /\ control_stream' = [control_stream EXCEPT ![i] = InitialStream]
            /\ returned' = Some(i)
            /\ UNCHANGED <<pc, panic_at>>
       ELSE /\ Panic("add_control_source")
            /\ UNCHANGED <<control_sources, control_stream, returned>>
    /\ UNCHANGED <<instruments, instruments_control_sources,
                   value_stream_connections, destination_connections,
                   output_channels, container_vars, fetches, call, order_vars,
                   oi, steps, bench_vars>>

\* a binding the instrument has already is kept
BindIfFree(bindings, instrument_index, control_source_index) ==
    IF IsSome(bindings[instrument_index]) THEN bindings
    ELSE [bindings EXCEPT ![instrument_index] =
             Some([source_index |-> control_source_index])]

\* graph.rs:93-95
Bind(bindings, instrument_index, control_source_index) ==
    [bindings EXCEPT ![instrument_index] =
        Some([source_index |-> control_source_index])]

connect_control_source(control_source_index, instrument_index) ==
    /\ InSetup
    /\ IF instrument_index >= SIZE
       THEN /\ Panic("connect_control_source")
            /\ UNCHANGED instruments_control_sources
       ELSE /\ instruments_control_sources' =
                   Bind(instruments_control_sources, instrument_index,
                        control_source_index)
            /\ UNCHANGED <<pc, panic_at>>
    /\ UNCHANGED <<instruments, control_sources, value_stream_connections,
                   destination_connections, output_channels, container_vars,
                   source_vars, call, order_vars, oi, steps,
                   returned, bench_vars>>

connect_value_stream(source_index, source_stream_index, destination_index, destination_stream_index) ==
    /\ InSetup
    /\ IF source_index >= SIZE \/ destination_index >= SIZE
       THEN /\ Panic("connect_value_stream")
            /\ UNCHANGED value_stream_connections
       ELSE LET i == FirstFree(value_stream_connections[destination_index],
                               ConnectionEntries) IN
            IF i >= 0
            THEN /\ value_stream_connections' =
                        [value_stream_connections EXCEPT ![destination_index][i] =
                            Some([source_index |-> source_index,
                                  source_stream_index |-> source_stream_index,
                                  destination_stream_index |-> destination_stream_index])]
                 /\ UNCHANGED <<pc, panic_at>>
            ELSE /\ Panic(NoMoreSpacePanic)
                 /\ UNCHANGED value_stream_connections
    /\ UNCHANGED <<instruments, control_sources, instruments_control_sources,
                   destination_connections, output_channels, container_vars,
                   source_vars, call, order_vars, oi, steps,
                   returned, bench_vars>>

connect_destination(output_channel_index, source_index, source_stream_index) ==
    /\ InSetup
    /\ IF output_channel_index >= OUTPUT_CHANNELS
       THEN \* destination_connections[output_channel_index]: index out of bounds
            /\ Panic("connect_destination")
            /\ UNCHANGED destination_connections
       ELSE LET i == FirstFree(destination_connections[output_channel_index],
                               ConnectionEntries) IN
            IF i >= 0
            THEN /\ destination_connections' =
                        [destination_connections EXCEPT ![output_channel_index][i] =
                            Some([source_index |-> source_index,
                                  source_stream_index |-> source_stream_index])]
                 /\ UNCHANGED <<pc, panic_at>>
            ELSE /\ Panic("connect_destination")
                 /\ UNCHANGED destination_connections
    /\ UNCHANGED <<instruments, control_sources, instruments_control_sources,
                   value_stream_connections, output_channels, container_vars,
                   source_vars, call, order_vars, oi, steps,
                   returned, bench_vars>>

\* ------------------------------------------------------------ process order
MaxScans == SIZE + 2

\* the dependency test dropped: every slot is eligible at once
AllProcessedIgnored(i, proc) == TRUE

\* the test reads processed[i] where it should read processed[source_index]
AllProcessedOwnSlot(i, proc) ==
    \A j \in ConnectionEntries : IsSome(value_stream_connections[i][j]) => proc[i]

\* a connection of a slot to itself is not counted as a dependency
AllProcessedSkipSelf(i, proc) ==
    \A j \in ConnectionEntries :
        (/\ IsSome(value_stream_connections[i][j])
         /\ Unwrap(value_stream_connections[i][j]).source_index # i) =>
            proc[Unwrap(value_stream_connections[i][j]).source_index]

\* only the first connection entry of the slot is looked at
AllProcessedFirstOnly(i, proc) ==
    IsSome(value_stream_connections[i][0]) =>
        proc[Unwrap(value_stream_connections[i][0]).source_index]

\* graph.rs:153-160: no connection of slot i has an unprocessed source
AllProcessed(i, proc) ==
    \A j \in ConnectionEntries :
        IsSome(value_stream_connections[i][j]) =>
            proc[Unwrap(value_stream_connections[i][j]).source_index]

RECURSIVE Scan(_, _)
\* graph.rs:148-171: one pass of `for i in 0..SIZE`, from slot i on; the pass
\* ends early, with returned set, when order_index reaches SIZE
Scan(i, st) ==
    IF i = SIZE THEN st
    ELSE IF st.processed[i] THEN Scan(i + 1, st)
    ELSE IF AllProcessed(i, st.processed)
         THEN LET marked == [processed |-> [st.processed EXCEPT ![i] = TRUE],
                             order |-> [st.order EXCEPT ![st.order_index] = i],
                             order_index |-> st.order_index + 1,
                             returned |-> FALSE]
              IN IF marked.order_index = SIZE
                 THEN [marked EXCEPT !.returned = TRUE]
                 ELSE Scan(i + 1, marked)
         ELSE Scan(i + 1, st)

\* graph.rs:143-145
OrderLocalsInit ==
    /\ order' = [p \in Slots |-> USIZE_MAX]
    /\ order_index' = 0
    /\ processed' = [i \in Slots |-> FALSE]
    /\ scans' = 0

\* a direct call of the public get_instrument_process_order
get_instrument_process_order ==
    /\ pc = "idle"
    /\ call = "none"
    /\ pc' = "order"
    /\ call' = "get_instrument_process_order"
    /\ OrderLocalsInit
    /\ UNCHANGED <<graph_vars, output_channels, container_vars, source_vars,
                   panic_at, oi, steps,
                   returned, bench_vars>>

\* one iteration of the outer `loop` of get_instrument_process_order
OrderScan ==
    /\ pc = "order"
    /\ scans < MaxScans
    /\ LET st == Scan(0, [processed |-> processed, order |-> order,
                          order_index |-> order_index, returned |-> FALSE])
       IN /\ processed' = st.processed
          /\ order' = st.order
          /\ order_index' = st.order_index
          /\ pc' = IF st.returned THEN "order_done" ELSE "order"
    /\ scans' = scans + 1
    /\ UNCHANGED <<graph_vars, output_channels, container_vars, source_vars,
                   call, panic_at, oi, steps,
                   returned, bench_vars>>

\* the direct call returns its order to the caller
OrderReturn ==
    /\ pc = "order_done"
    /\ call = "get_instrument_process_order"
    /\ pc' = "idle"
    /\ call' = "none"
    /\ OrderLocalsInit
    /\ UNCHANGED <<graph_vars, output_channels, container_vars, source_vars,
                   panic_at, oi, steps,
                   returned, bench_vars>>

\* ------------------------------------------------------------ process_next
\* the accumulators are left as the previous step filled them
ClearOutputKeep(channels) == channels

\* InstrumentGraph::clear_output
ClearOutput(channels) == [o \in Channels |-> ZeroBlock]

\* graph.rs:176-178: clear_output, then the call of get_instrument_process_order
process_next ==
    /\ pc = "idle"
    /\ call = "none"
    /\ steps < MaxSteps
    /\ output_channels' = ClearOutput(output_channels)
    /\ pc' = "order"
    /\ call' = "process_next"
    /\ OrderLocalsInit
    /\ runs' = [i \in Slots |-> 0]
    /\ UNCHANGED <<graph_vars, container_input, container_output, container_control,
                   container_instrument, source_vars, panic_at, oi, steps,
                   returned, bench_vars>>

\* only control sources bound to some instrument are advanced
FetchNeededConnected(c) ==
    /\ IsSome(control_sources[c])
    /\ \E i \in Slots : /\ IsSome(instruments_control_sources[i])
                        /\ Unwrap(instruments_control_sources[i]).source_index = c

\* graph.rs:181: the control sources process_next advances
FetchNeeded(c) == IsSome(control_sources[c])

RECURSIVE FetchedBy(_)
\* the blocks control sources 0 .. c-1 may hold after the loop of graph.rs:180-184
FetchedBy(c) ==
    IF c = 0 THEN {<<>>}
    ELSE {Append(streams, stream) :
             streams \in FetchedBy(c - 1),
             stream \in IF FetchNeeded(c - 1)
                        THEN FetchedStreams(Unwrap(control_sources[c - 1]))
                        ELSE {control_stream[c - 1]}}

\* graph.rs:180-184: fetch_next_stream on the control sources
FetchControlSources ==
    /\ pc = "order_done"
    /\ call = "process_next"
    /\ fetches' = [c \in ControlSlots |->
                      IF FetchNeeded(c) THEN fetches[c] + 1 ELSE fetches[c]]
    /\ \E streams \in FetchedBy(CONTROL_SIZE) :
          control_stream' = [c \in ControlSlots |-> streams[c + 1]]
    /\ pc' = "feed"
    /\ oi' = 0
    /\ UNCHANGED <<graph_vars, output_channels, container_vars, call,
                   panic_at, order_vars, steps,
                   returned, bench_vars>>

RECURSIVE FeedLoop(_, _, _)
\* graph.rs:191-206: the connections j.. of instrument_index fed into `input`
FeedLoop(instrument_index, j, input) ==
    IF j = CONNECTION_SIZE THEN [panic |-> "none", input |-> input]
    ELSE LET c == value_stream_connections[instrument_index][j] IN
         IF ~IsSome(c) THEN FeedLoop(instrument_index, j + 1, input)
         ELSE LET conn == Unwrap(c)
                  src == instruments[conn.source_index]
                  dst == instruments[instrument_index]
              IN IF IsSome(src) /\ conn.source_stream_index >= OutValueStreams(Unwrap(src))
                 THEN \* get_output: index out of bounds
                      [panic |-> StreamIndexPanic, input |-> input]
                 ELSE IF ~IsSome(dst) THEN FeedLoop(instrument_index, j + 1, input)
                 ELSE IF ~IsSome(src)
                 THEN \* source_stream.unwrap() on None
                      [panic |-> UnwrapPanic, input |-> input]
                 ELSE IF conn.destination_stream_index >= InValueStreams(Unwrap(dst))
                 THEN \* feed_value_stream: index out of bounds
                      [panic |-> StreamIndexPanic, input |-> input]
                 ELSE FeedLoop(instrument_index, j + 1,
                               FeedValueStream(input, conn.destination_stream_index,
                                               container_output[conn.source_index]))

RECURSIVE ControlFeedLoop(_, _, _)
\* graph.rs:209-215: the bound source's block fed into the control inputs j..
ControlFeedLoop(instrument_index, j, control) ==
    IF j >= InControlStreams(Unwrap(instruments[instrument_index])) THEN control
    ELSE LET connection == instruments_control_sources[instrument_index] IN
         IF /\ IsSome(connection)
            /\ IsSome(control_sources[Unwrap(connection).source_index])
         THEN ControlFeedLoop(instrument_index, j + 1,
                  FeedControlStream(control, j,
                                    control_stream[Unwrap(connection).source_index]))
         ELSE ControlFeedLoop(instrument_index, j + 1, control)

\* graph.rs:208-215: control_sources[connection.source_index] out of bounds
ControlFeedPanics(instrument_index) ==
    /\ IsSome(instruments[instrument_index])
    /\ InControlStreams(Unwrap(instruments[instrument_index])) > 0
    /\ IsSome(instruments_control_sources[instrument_index])
    /\ Unwrap(instruments_control_sources[instrument_index]).source_index >= CONTROL_SIZE

\* where the loop `for i in 0..SIZE` over the order goes with i = p
LoopAt(p) == IF p = SIZE THEN "output" ELSE "feed"

\* graph.rs:185-215: the iteration for order[oi] up to the instrument's process_next
FeedInstrument ==
    /\ pc = "feed"
    /\ LET instrument_index == order[oi] IN
       IF instrument_index = USIZE_MAX
       THEN /\ pc' = "output"
            /\ UNCHANGED <<container_input, container_control, panic_at, oi>>
       ELSE LET fed == FeedLoop(instrument_index, 0, container_input[instrument_index])
            IN IF fed.panic # "none"
               THEN /\ Panic(fed.panic)
                    /\ UNCHANGED <<container_input, container_control, oi>>
               ELSE IF ControlFeedPanics(instrument_index)
               THEN /\ Panic(SlotIndexPanic)
                    /\ UNCHANGED <<container_input, container_control, oi>>
               ELSE IF IsSome(instruments[instrument_index])
               THEN /\ container_input' =
                           [container_input EXCEPT ![instrument_index] = fed.input]
                    /\ container_control' =
                           [container_control EXCEPT ![instrument_index] =
                               ControlFeedLoop(instrument_index, 0, @)]
                    /\ pc' = "run"
                    /\ UNCHANGED <<panic_at, oi>>
               ELSE /\ oi' = oi + 1
                    /\ pc' = LoopAt(oi + 1)
                    /\ UNCHANGED <<container_input, container_control, panic_at>>
    /\ UNCHANGED <<graph_vars, output_channels, container_output,
                   container_instrument, runs, source_vars, call, order_vars, steps,
                   returned, bench_vars>>

\* graph.rs:216: instrument.process_next(), lib.rs:151-154: process_block, clear_input
RunInstrument ==
    /\ pc = "run"
    /\ LET i == order[oi]
           r == ContainerProcessBlock(Unwrap(instruments[i]), container_instrument[i],
                                      container_input[i], container_control[i],
                                      container_output[i])
       IN /\ container_instrument' = [container_instrument EXCEPT ![i] = r.state]
          /\ container_output' = [container_output EXCEPT ![i] = r.output]
          /\ container_input' = [container_input EXCEPT ![i] = ClearInput(@)]
          /\ container_control' = [container_control EXCEPT ![i] = ClearControl(@)]
          /\ runs' = [runs EXCEPT ![i] = @ + 1]
    /\ oi' = oi + 1
    /\ pc' = LoopAt(oi + 1)
    /\ UNCHANGED <<graph_vars, output_channels, source_vars, call, panic_at,
                   order_vars, steps,
                   returned, bench_vars>>

RECURSIVE OutputLoop(_, _, _)
\* graph.rs:221-233: the destination connections j.. of channel i added into `block`
OutputLoop(i, j, block) ==
    IF j = CONNECTION_SIZE THEN [panic |-> "none", block |-> block]
    ELSE LET c == destination_connections[i][j] IN
         IF ~IsSome(c) THEN OutputLoop(i, j + 1, block)
         ELSE LET conn == Unwrap(c) IN
              IF conn.source_index >= SIZE
              THEN \* self.instruments[source_index]: index out of bounds
                   [panic |-> SlotIndexPanic, block |-> block]
              ELSE LET src == instruments[conn.source_index] IN
                   IF ~IsSome(src) THEN OutputLoop(i, j + 1, block)
                   ELSE IF conn.source_stream_index >= OutValueStreams(Unwrap(src))
                   THEN [panic |-> StreamIndexPanic, block |-> block]
                   ELSE OutputLoop(i, j + 1,
                            [k \in Samples |->
                                block[k] + container_output[conn.source_index][k]])

\* graph.rs:220-235: the output channels accumulated, and process_next returns
CollectOutput ==
    /\ pc = "output"
    /\ LET res == [o \in Channels |-> OutputLoop(o, 0, output_channels[o])] IN
       IF \E o \in Channels : res[o].panic # "none"
       THEN /\ Panic(res[CHOOSE o \in Channels : res[o].panic # "none" /\
                             \A q \in Channels : res[q].panic # "none" => o <= q].panic)
            /\ UNCHANGED <<output_channels, call, order_vars, oi, steps>>
       ELSE /\ output_channels' = [o \in Channels |-> res[o].block]
            /\ pc' = "idle"
            /\ call' = "none"
            /\ steps' = steps + 1
            /\ oi' = 0
            /\ OrderLocalsInit
            /\ UNCHANGED panic_at
    /\ UNCHANGED <<graph_vars, container_vars, source_vars,
                   returned, bench_vars>>

\* ------------------------------------------------------------ a container on its own
\* everything the graph and its bound sources hold
all_graph_vars == <<graph_vars, output_channels, container_vars, source_vars,
                    returned, call, order_vars, oi, steps>>

\* container(instrument), lib.rs:226-236: the maker holds the new container
container_new(kind) ==
    /\ pc = "idle"
    /\ container = None
    /\ container' = Some(NewContainer(kind))
    /\ feeds' = <<>>
    /\ seen' = None
    /\ UNCHANGED <<all_graph_vars, flag_vars, pc, panic_at, blocks, envelope_vars, delay_vars, osc_vars>>

\* InstrumentContainer::feed_value_stream, lib.rs:218-223
feed_value_stream(stream_index, stream) ==
    /\ pc = "idle"
    /\ IsSome(container)
    /\ IF stream_index >= InValueStreams(Unwrap(container).kind)
       THEN \* input.value_streams[stream_index]: index out of bounds
            /\ Panic("feed_value_stream")
            /\ UNCHANGED <<container, feeds>>
       ELSE /\ container' = Some([Unwrap(container) EXCEPT !.value_streams =
                                     FeedValueStream(@, stream_index, stream)])
            /\ feeds' = Append(feeds, [call |-> "feed_value_stream",
                                   stream_index |-> stream_index, stream |-> stream])
            /\ UNCHANGED <<pc, panic_at>>
    /\ seen' = None
    /\ UNCHANGED <<all_graph_vars, flag_vars, blocks, envelope_vars, delay_vars, osc_vars>>

\* InstrumentContainer::feed_control_stream, lib.rs:211-216
feed_control_stream(stream_index, stream) ==
    /\ pc = "idle"
    /\ IsSome(container)
    /\ IF stream_index >= InControlStreams(Unwrap(container).kind)
       THEN \* input.control_streams[stream_index]: index out of bounds
            /\ Panic("feed_control_stream")
            /\ UNCHANGED <<container, feeds>>
       ELSE /\ container' = Some([Unwrap(container) EXCEPT !.control_streams =
                                     FeedControlStream(@, stream_index, stream)])
            /\ feeds' = Append(feeds, [call |-> "feed_control_stream",
                                   stream_index |-> stream_index, stream |-> stream])
            /\ UNCHANGED <<pc, panic_at>>
    /\ seen' = None
    /\ UNCHANGED <<all_graph_vars, flag_vars, blocks, envelope_vars, delay_vars, osc_vars>>

\* InstrumentContainer::process_next, lib.rs:203-205 and 151-154
container_process_next ==
    /\ pc = "idle"
    /\ IsSome(container)
    /\ LET c == Unwrap(container)
           r == ContainerProcessBlock(c.kind, c.instrument, c.value_streams,
                                      c.control_streams, c.output)
       IN /\ container' = Some([c EXCEPT !.instrument = r.state,
                                         !.output = r.output,
                                         !.value_streams = ClearInput(@),
                                         !.control_streams = ClearControl(@)])
          /\ seen' = Some([value_streams |-> c.value_streams,
                           control_streams |-> c.control_streams,
                           feeds |-> feeds])
    /\ feeds' = <<>>
    /\ blocks' = blocks + 1
    /\ UNCHANGED <<all_graph_vars, flag_vars, pc, panic_at, envelope_vars, delay_vars, osc_vars>>

\* ------------------------------------------------------------ an envelope on its own
\* LinearEnvelope::new(point_times, point_gains, release_time)
envelope_new(point_times, point_gains, release_time) ==
    /\ envelope = None
    /\ envelope' = Some(LinearEnvelopeNew(point_times, point_gains, release_time))
    /\ played' = [p \in 1 .. (Len(point_times) + 1) |-> 0]
    /\ UNCHANGED <<all_graph_vars, flag_vars, pc, panic_at, held_vars, delay_vars, osc_vars, blocks, envelope_pc,
                   envelope_input, envelope_output, envelope_i, envelope_k,
                   release_gain>>

\* LinearEnvelope::process_block is called with a control block
envelope_process_block(input) ==
    /\ IsSome(envelope)
    /\ envelope_pc = "idle"
    /\ envelope_pc' = "commands"
    /\ envelope_input' = input
    /\ envelope_i' = 0
    /\ envelope_k' = 0
    /\ UNCHANGED <<all_graph_vars, flag_vars, pc, panic_at, held_vars, delay_vars, osc_vars, blocks, envelope,
                   envelope_output, played, release_gain>>

\* envelope.rs:83-110: one iteration of the command loop
EnvelopeCommand ==
    /\ envelope_pc = "commands"
    /\ LET note_command == NoteCommandAt(envelope_input, envelope_i) IN
       /\ envelope' = Some(ApplyCommand(Unwrap(envelope), note_command))
       /\ played' = IF note_command.command_type = "NoteOn"
                    THEN [p \in DOMAIN played |-> 0] ELSE played
       /\ release_gain' = IF /\ note_command.command_type = "NoteOff"
                             /\ Unwrap(envelope).current_point \in 1 .. POINTS(Unwrap(envelope))
                          THEN Unwrap(envelope).current_gain
                          ELSE release_gain
    /\ envelope_i' = envelope_i + 1
    /\ envelope_pc' = IF envelope_i + 1 = STANDARD_ELEMENT_COUNT
                      THEN "samples" ELSE "commands"
    /\ UNCHANGED <<all_graph_vars, flag_vars, pc, panic_at, held_vars, delay_vars, osc_vars, blocks,
                   envelope_input, envelope_output, envelope_k>>

\* envelope.rs:112-159: one iteration of the sample loop; the call returns
\* after the last
EnvelopeSample ==
    /\ envelope_pc = "samples"
    /\ LET self == Unwrap(envelope)
           r == Sample(self)
       IN /\ envelope' = Some(r.self)
          /\ envelope_output' = [envelope_output EXCEPT ![envelope_k] = r.sample]
          /\ played' = IF self.current_point \in DOMAIN played
                       THEN [played EXCEPT ![self.current_point] = @ + 1]
                       ELSE played
    /\ envelope_k' = envelope_k + 1
    /\ IF envelope_k + 1 = STANDARD_BLOCK_SIZE
       THEN envelope_pc' = "idle" /\ blocks' = blocks + 1
       ELSE envelope_pc' = "samples" /\ blocks' = blocks
    /\ UNCHANGED <<all_graph_vars, flag_vars, pc, panic_at, held_vars, delay_vars, osc_vars, envelope_input,
                   envelope_i, release_gain>>

\* ------------------------------------------------------------ a Delay on its own
\* Delay::new(delay)
delay_new(delay) ==
    /\ delay_line = None
    /\ delay_line' = Some(DelayNew(delay))
    /\ UNCHANGED <<all_graph_vars, flag_vars, pc, panic_at, held_vars, blocks, envelope_vars,
                   osc_vars, delay_input, delay_i, delay_fed, delay_got>>

\* Delay::process_block is called with a block on value stream 0
delay_process_block(input) ==
    /\ IsSome(delay_line)
    /\ delay_i = STANDARD_BLOCK_SIZE
    /\ delay_input' = input
    /\ delay_i' = 0
    /\ UNCHANGED <<all_graph_vars, flag_vars, pc, panic_at, held_vars, blocks, envelope_vars,
                   osc_vars, delay_line, delay_fed, delay_got>>

\* mod.rs:100-109: one iteration of the sample loop; the call returns after
\* the last
DelayStep ==
    /\ IsSome(delay_line)
    /\ delay_i < STANDARD_BLOCK_SIZE
    /\ LET r == DelaySample(Unwrap(delay_line), delay_input[delay_i]) IN
       /\ delay_line' = Some(r.self)
       /\ delay_fed' = Append(delay_fed, delay_input[delay_i])
       /\ delay_got' = Append(delay_got, r.sample)
    /\ delay_i' = delay_i + 1
    /\ blocks' = IF delay_i + 1 = STANDARD_BLOCK_SIZE THEN blocks + 1 ELSE blocks
    /\ UNCHANGED <<all_graph_vars, flag_vars, pc, panic_at, held_vars, envelope_vars,
                   osc_vars, delay_input>>

\* ------------------------------------------------------------ an oscillator on its own
\* SineOscillator::new(sampling_rate)
oscillator_new(sampling_rate) ==
    /\ oscillator = None
    /\ oscillator' = Some(SineOscillatorNew(sampling_rate))
    /\ UNCHANGED <<all_graph_vars, flag_vars, pc, panic_at, held_vars, blocks, envelope_vars,
                   delay_vars, osc_pc, osc_input, osc_output, osc_i>>

\* SineOscillator::process_block is called with a frequency and a phase block
oscillator_process_block(frequency, phase) ==
    /\ IsSome(oscillator)
    /\ osc_pc = "idle"
    /\ osc_pc' = "accumulate"
    /\ osc_input' = [frequency |-> frequency, phase |-> phase]
    /\ osc_i' = 0
    /\ UNCHANGED <<all_graph_vars, flag_vars, pc, panic_at, held_vars, blocks, envelope_vars,
                   delay_vars, oscillator, osc_output>>

\* oscillators.rs:40-42
OscAccumulate ==
    /\ osc_pc = "accumulate"
    /\ oscillator' = Some(Accumulate(Unwrap(oscillator), osc_input.frequency[osc_i],
                                     osc_input.phase[osc_i]))
    /\ osc_pc' = "wrap_down"
    /\ UNCHANGED <<all_graph_vars, flag_vars, pc, panic_at, held_vars, blocks, envelope_vars,
                   delay_vars, osc_input, osc_output, osc_i>>

\* oscillators.rs:43-45: while self.phase >= 1.0 { self.phase -= 1.0 }
OscWrapDown ==
    /\ osc_pc = "wrap_down"
    /\ IF ~FLess(Unwrap(oscillator).phase, One)
       THEN /\ oscillator' = Some([Unwrap(oscillator) EXCEPT !.phase = FloatSub(@, One)])
            /\ osc_pc' = "wrap_down"
       ELSE /\ oscillator' = oscillator
            /\ osc_pc' = "wrap_up"
    /\ UNCHANGED <<all_graph_vars, flag_vars, pc, panic_at, held_vars, blocks, envelope_vars,
                   delay_vars, osc_input, osc_output, osc_i>>

\* oscillators.rs:46-48: while self.phase < 0.0 { self.phase += 1.0 }
OscWrapUp ==
    /\ osc_pc = "wrap_up"
    /\ IF FLess(Unwrap(oscillator).phase, Zero)
       THEN /\ oscillator' = Some([Unwrap(oscillator) EXCEPT !.phase = FloatAdd(@, One)])
            /\ osc_pc' = "wrap_up"
       ELSE /\ oscillator' = oscillator
            /\ osc_pc' = "emit"
    /\ UNCHANGED <<all_graph_vars, flag_vars, pc, panic_at, held_vars, blocks, envelope_vars,
                   delay_vars, osc_input, osc_output, osc_i>>

\* oscillators.rs:50, and the end of the loop body; the call returns after the
\* last sample
OscEmit ==
    /\ osc_pc = "emit"
    /\ osc_output' = [osc_output EXCEPT ![osc_i] = Sinf2Pi(Unwrap(oscillator).phase)]
    /\ osc_i' = osc_i + 1
    /\ IF osc_i + 1 = STANDARD_BLOCK_SIZE
       THEN osc_pc' = "idle" /\ blocks' = blocks + 1
       ELSE osc_pc' = "accumulate" /\ blocks' = blocks
    /\ UNCHANGED <<all_graph_vars, flag_vars, pc, panic_at, held_vars, envelope_vars,
                   delay_vars, oscillator, osc_input>>

\* ------------------------------------------------------------ the flag of example2
\* MyControl::new(signal), example2.rs:14-23
MyControlNew == [stream |-> InitialStream]

\* example2.rs:32-46: the command stored into stream[0] for the value loaded
LoadedCommand(loaded) == IF loaded THEN NoteOnCommand(255) ELSE NoteOffCommand

\* example2.rs:86: leak(MyControl::new(signal_ref))
my_control_new ==
    /\ my_control = None
    /\ my_control' = Some(MyControlNew)
    /\ UNCHANGED <<all_graph_vars, pc, panic_at, held_vars, blocks, envelope_vars,
                   delay_vars, osc_vars, signal, fetch_pc, stored, fetched, unread>>

\* example2.rs:31-46, on the audio thread: self.signal.load(SeqCst), and the
\* command for it stored into self.stream[0]
fetch_next_stream ==
    /\ IsSome(my_control)
    /\ fetch_pc = "idle"
    /\ fetched < MaxFetches
    /\ my_control' = Some([Unwrap(my_control) EXCEPT !.stream[0] = LoadedCommand(signal)])
    /\ unread' = IF signal THEN FALSE ELSE unread
    /\ fetch_pc' = "reset"
    /\ UNCHANGED <<all_graph_vars, pc, panic_at, held_vars, blocks, envelope_vars,
                   delay_vars, osc_vars, signal, stored, fetched>>

\* example2.rs:48: self.signal.store(false, SeqCst), and the call returns
FetchReset ==
    /\ fetch_pc = "reset"
    /\ signal' = FALSE
    /\ fetch_pc' = "idle"
    /\ fetched' = fetched + 1
    /\ UNCHANGED <<all_graph_vars, pc, panic_at, held_vars, blocks, envelope_vars,
                   delay_vars, osc_vars, my_control, stored, unread>>

\* example2.rs:137-141, on the main thread: a line is read and
\* SIGNAL.store(true, SeqCst).  A fetch_next_stream that has loaded true and
\* not yet returned counts as answering this trigger too.
InputStore ==
    /\ IsSome(my_control)
    /\ stored < MaxTriggers
    /\ signal' = TRUE
    /\ stored' = stored + 1
    /\ unread' = ~(/\ fetch_pc = "reset"
                   /\ Unwrap(my_control).stream[0] = NoteOnCommand(255))
    /\ UNCHANGED <<all_graph_vars, pc, panic_at, held_vars, blocks, envelope_vars,
                   delay_vars, osc_vars, my_control, fetch_pc, fetched>>

\* ------------------------------------------------------------ specifications
NumValueConnections ==
    Cardinality({<<i, j>> \in Slots \X ConnectionEntries :
                    IsSome(value_stream_connections[i][j])})

\* The caller's setup calls.  Slot indices range up to one past the capacity;
\* stream indices are those some modelled instrument has.
SetupInstrument == \E kind \in InstrumentKinds : add_instrument(kind)

SetupMixer == add_instrument("Mixer")

SetupValueStream ==
    /\ NumValueConnections < MaxValueConnections
    /\ \E s \in 0 .. SIZE, d \in 0 .. SIZE, ds \in 0 .. 1 :
          connect_value_stream(s, 0, d, ds)

SetupOneValueStream ==
    /\ NumValueConnections < 1
    /\ \E s \in Slots, d \in Slots : connect_value_stream(s, 0, d, 0)

SetupDependency ==
    /\ NumValueConnections < MaxDependencies
    /\ \E s \in 0 .. SIZE, d \in 0 .. SIZE : connect_value_stream(s, 0, d, 0)

NumDestinations ==
    Cardinality({<<o, j>> \in Channels \X ConnectionEntries :
                    IsSome(destination_connections[o][j])})

SetupDestination ==
    /\ NumDestinations < MaxDestinations
    /\ \E o \in 0 .. OUTPUT_CHANNELS, s \in 0 .. SIZE : connect_destination(o, s, 0)

SetupSource == \E kind \in {"Constant", "Mixer"} : add_instrument(kind)

SetupControlSource == add_control_source("Source")

SetupControlConnection ==
    \E c \in 0 .. CONTROL_SIZE, i \in 0 .. SIZE : connect_control_source(c, i)

Step ==
    \/ process_next
    \/ OrderScan
    \/ FetchControlSources
    \/ FeedInstrument
    \/ RunInstrument
    \/ CollectOutput

\* instruments wired by value streams, then stepped
Next ==
    \/ SetupInstrument
    \/ SetupValueStream
    \/ Step

Spec == Init /\ [][Next]_vars

\* the process order of any wiring, asked for directly or by process_next
NextOrder ==
    \/ SetupMixer
    \/ SetupDependency
    \/ get_instrument_process_order
    \/ OrderReturn
    \/ Step

SpecOrder == Init /\ [][NextOrder]_vars

\* instruments connected to the output channels, then stepped
NextOutput ==
    \/ SetupSource
    \/ SetupOneValueStream
    \/ SetupDestination
    \/ Step

SpecOutput == Init /\ [][NextOutput]_vars

\* control sources registered and bound, then stepped
NextControl ==
    \/ SetupMixer
    \/ SetupOneValueStream
    \/ SetupControlSource
    \/ SetupControlConnection
    \/ Step

SpecControl == Init /\ [][NextControl]_vars

SetupEnvelope == add_instrument("LinearEnvelope")

\* a Sequencer registered first, into control slot 0
SetupSequencer == control_sources[0] = None /\ add_control_source("Sequencer")

SetupBinding == \E c \in ControlSlots, i \in Slots : connect_control_source(c, i)

\* envelopes bound to control sources, then stepped
NextControlFeed ==
    \/ SetupEnvelope
    \/ SetupSequencer
    \/ SetupControlSource
    \/ SetupBinding
    \/ Step

SpecControlFeed == Init /\ [][NextControlFeed]_vars

SetupCleanInstrument ==
    \E kind \in {"Constant", "Mixer", "LinearEnvelope"} : add_instrument(kind)

\* a Constant wired into an input of a Mixer
SetupConstantStream ==
    /\ NumValueConnections < MaxValueConnections
    /\ \E s \in Slots, d \in Slots, ds \in 0 .. 1 :
          /\ instruments[s] = Some("Constant")
          /\ instruments[d] = Some("Mixer")
          /\ connect_value_stream(s, 0, d, ds)

\* an envelope bound to a registered control source
SetupEnvelopeBinding ==
    \E c \in ControlSlots, i \in Slots :
        /\ IsSome(control_sources[c])
        /\ instruments[i] = Some("LinearEnvelope")
        /\ instruments_control_sources[i] = None
        /\ connect_control_source(c, i)

\* instruments fed by value streams and by control sources, then stepped
NextClean ==
    \/ SetupCleanInstrument
    \/ SetupConstantStream
    \/ SetupSequencer
    \/ SetupEnvelopeBinding
    \/ Step

SpecClean == Init /\ [][NextClean]_vars

SetupOneDestination ==
    /\ NumDestinations < 1
    /\ \E o \in Channels, s \in Slots : connect_destination(o, s, 0)

SetupFirstControlSource == control_sources[0] = None /\ add_control_source("Source")

\* a filled, unbound slot bound to the registered control source
SetupFirstBinding ==
    \E i \in Slots :
        /\ IsSome(control_sources[0])
        /\ IsSome(instruments[i])
        /\ instruments_control_sources[i] = None
        /\ connect_control_source(0, i)

\* every setup call of the graph, then steps
NextSlots ==
    \/ SetupSource
    \/ SetupFirstControlSource
    \/ SetupFirstBinding
    \/ SetupOneValueStream
    \/ SetupOneDestination
    \/ Step

SpecSlots == Init /\ [][NextSlots]_vars

RECURSIVE PointTimes(_)
\* the point_times arrays of n segments, each instantaneous or MaxPointTime long
PointTimes(n) ==
    IF n = 0 THEN {<<>>}
    ELSE {Append(times, t) : times \in PointTimes(n - 1), t \in {0, MaxPointTime}}

\* the gain of segment p: 3, 2, 1, 3, ..
PointGains(n) == [p \in 1 .. n |-> 3 - ((p - 1) % 3)]

MakeEnvelope ==
    \E n \in 0 .. MaxPoints, release_time \in {0, MaxReleaseTime} :
        \E point_times \in PointTimes(n) :
            envelope_new(point_times, PointGains(n), release_time)

CallProcessBlock ==
    /\ blocks < MaxBlocks
    /\ \E input \in [Elements -> NoteCommands] : envelope_process_block(input)

\* an envelope constructed and driven block by block
NextEnvelope ==
    \/ MakeEnvelope
    \/ CallProcessBlock
    \/ EnvelopeCommand
    \/ EnvelopeSample

SpecEnvelope == Init /\ [][NextEnvelope]_vars

MakeOscillator == oscillator_new(SamplingRate)

\* the frequencies and phase offsets fed: constant over a block
Frequencies == {Frac(1, 1), Frac(0 - 1, 8), Frac(6, 1)}
PhaseOffsets == {Zero, Frac(1, 2), Frac(0 - 1, 4)}

CallOscillatorBlock ==
    /\ blocks < MaxBlocks
    /\ \E f \in Frequencies, o \in PhaseOffsets :
          oscillator_process_block([k \in Samples |-> f], [k \in Samples |-> o])

\* an oscillator constructed and driven block by block
NextOscillator ==
    \/ MakeOscillator
    \/ CallOscillatorBlock
    \/ OscAccumulate
    \/ OscWrapDown
    \/ OscWrapUp
    \/ OscEmit

SpecOscillator == Init /\ [][NextOscillator]_vars

MakeDelay == \E delay \in 0 .. MaxDelay : delay_new(delay)

CallDelayBlock ==
    /\ blocks < MaxBlocks
    /\ \E input \in [Samples -> {1, 2}] : delay_process_block(input)

\* a Delay constructed and driven block by block
NextDelay ==
    \/ MakeDelay
    \/ CallDelayBlock
    \/ DelayStep

SpecDelay == Init /\ [][NextDelay]_vars

\* the audio thread's fetch_next_stream calls interleaved with the input
\* thread's stores
NextFlag ==
    \/ my_control_new
    \/ fetch_next_stream
    \/ FetchReset
    \/ InputStore

SpecFlag == Init /\ [][NextFlag]_vars

\* The caller of a container on its own: slices of one sample or command and
\* of a full block (a rising ramp, a repeated command), stream indices up to
\* one past the Mixer's.
ValueSlices ==
    CommandSlices({1, 2}, 1) \cup {[k \in Samples |-> v + k] : v \in {1, 2}}

ControlSlices ==
    CommandSlices({NoteOnCommand(255), NoteOffCommand}, 1)
    \cup {[e \in Elements |-> c] : c \in {NoteOnCommand(255), NoteOffCommand}}

MakeContainer == \E kind \in {"Mixer", "LinearEnvelope"} : container_new(kind)

CallFeedValueStream ==
    /\ Len(feeds) < MaxFeeds
    /\ \E stream_index \in 0 .. 2, stream \in ValueSlices :
          feed_value_stream(stream_index, stream)

CallFeedControlStream ==
    /\ Len(feeds) < MaxFeeds
    /\ \E stream_index \in 0 .. 1, stream \in ControlSlices :
          feed_control_stream(stream_index, stream)

CallProcessNext == blocks < MaxBlocks /\ container_process_next

\* a container fed and processed by its maker
NextContainer ==
    \/ MakeContainer
    \/ CallFeedValueStream
    \/ CallFeedControlStream
    \/ CallProcessNext

SpecContainer == Init /\ [][NextContainer]_vars

\* ------------------------------------------------------------ the wiring as a graph
\* a value-stream connection from source slot u into destination slot v
Edge(u, v) ==
    \E j \in ConnectionEntries :
        /\ IsSome(value_stream_connections[v][j])
        /\ Unwrap(value_stream_connections[v][j]).source_index = u

Successors(S) == {v \in Slots : \E u \in S : Edge(u, v)}

RECURSIVE Descendants(_, _)
Descendants(S, n) ==
    IF n = 0 THEN {} ELSE Successors(S) \cup Descendants(Successors(S), n - 1)

OnCycle(i) == i \in Descendants({i}, SIZE)

Acyclic == \A i \in Slots : ~OnCycle(i)

Filled(i) == IsSome(instruments[i])

\* ------------------------------------------------------------ claims
\* C1: the order get_instrument_process_order returns holds each filled slot
\* index exactly once, and for every value-stream connection from slot u into
\* slot v, u stands strictly before v.
C1_OrderIsTopological ==
    pc = "order_done" =>
        /\ \A i \in Slots : Filled(i) => Cardinality({p \in Slots : order[p] = i}) = 1
        /\ \A u \in Slots, v \in Slots :
              Edge(u, v) => \E p \in Slots, q \in Slots :
                                p < q /\ order[p] = u /\ order[q] = v

\* an order returned for filled slots wired against their slot numbering
C1_Witness ==
    /\ pc = "order_done"
    /\ \A i \in Slots : Filled(i)
    /\ NumValueConnections >= 2
    /\ \E u \in Slots, v \in Slots : u > v /\ Edge(u, v)
    /\ order[0] > order[SIZE - 1]

\* every stored stream index is one the instrument it addresses has
StreamIndicesValid ==
    \A i \in Slots, j \in ConnectionEntries :
        IsSome(value_stream_connections[i][j]) =>
            LET conn == Unwrap(value_stream_connections[i][j]) IN
            /\ Filled(i) => conn.destination_stream_index < InValueStreams(Unwrap(instruments[i]))
            /\ Filled(conn.source_index) =>
                  conn.source_stream_index < OutValueStreams(Unwrap(instruments[conn.source_index]))

\* C2 (as claimed): no process_next panics after a setup whose calls all
\* returned, whatever slot indices the wiring holds and whether or not the
\* slots it names are filled (the stream indices being valid ones).
C2_ProcessNextNeverPanics ==
    StreamIndicesValid => panic_at \notin {UnwrapPanic, SlotIndexPanic}

\* C3 (as claimed): no stored connection record holds an index beyond the
\* capacity, because the wiring call given one fails.
C3_StoredIndicesInCapacity ==
    /\ \A i \in Slots :
          IsSome(instruments_control_sources[i]) =>
              Unwrap(instruments_control_sources[i]).source_index < CONTROL_SIZE
    /\ \A i \in Slots, j \in ConnectionEntries :
          IsSome(value_stream_connections[i][j]) =>
              Unwrap(value_stream_connections[i][j]).source_index < SIZE
    /\ \A o \in Channels, j \in ConnectionEntries :
          IsSome(destination_connections[o][j]) =>
              Unwrap(destination_connections[o][j]).source_index < SIZE

\* C4: on an acyclic wiring get_instrument_process_order has returned once
\* SIZE passes over the slot array have been made; it never starts another.
C4_AtMostSizeScans ==
    Acyclic => /\ scans <= SIZE
               /\ (pc = "order" => scans < SIZE)

\* the dependency chain SIZE-1 -> ... -> 1 -> 0 takes all SIZE passes
C4_Witness ==
    /\ pc = "order_done"
    /\ scans = SIZE
    /\ \A i \in 0 .. (SIZE - 2) : Edge(i + 1, i)

\* C5 (as claimed): the returned order lists only filled slots, the other
\* entries staying usize::MAX.
C5_OnlyFilledSlotsListed ==
    pc = "order_done" =>
        \A p \in Slots : order[p] # USIZE_MAX => Filled(order[p])

\* C6: with a cycle among the value-stream connections no slot on the cycle
\* is ever marked processed, get_instrument_process_order stays in its loop,
\* and no process_next completes.
C6_CycleNeverReturns ==
    ~Acyclic =>
        /\ steps = 0
        /\ call # "none" =>
              /\ pc = "order"
              /\ \A i \in Slots : OnCycle(i) => ~processed[i]

\* process_next still looping after more than SIZE passes, some slot feeding itself
C6_Witness ==
    /\ call = "process_next"
    /\ pc = "order"
    /\ scans > SIZE
    /\ \E i \in Slots : Edge(i, i) /\ Filled(i)
    /\ \E i \in Slots : ~OnCycle(i) /\ processed[i]

RECURSIVE SourceSum(_, _, _, _)
\* sample k of the source output blocks of the connections j.. onto input d of slot i
SourceSum(i, d, j, k) ==
    IF j = CONNECTION_SIZE THEN 0
    ELSE LET c == value_stream_connections[i][j] IN
         (IF IsSome(c) /\ Unwrap(c).destination_stream_index = d
          THEN container_output[Unwrap(c).source_index][k] ELSE 0)
         + SourceSum(i, d, j + 1, k)

\* C7: in every step, the block an instrument is processed with on value
\* input d is the element-wise sum of the source output blocks over all
\* connections onto d (all zeros without one).
C7_InputIsSumOfSources ==
    pc = "run" =>
        \A d \in DOMAIN container_input[order[oi]] :
            container_input[order[oi]][d] =
                [k \in Samples |-> SourceSum(order[oi], d, 0, k)]

\* second step: a Mixer about to run with the same Constant connected twice
\* onto one input, its other input unconnected
C7_Witness ==
    /\ pc = "run"
    /\ steps = 1
    /\ LET i == order[oi] IN
       /\ instruments[i] = Some("Mixer")
       /\ IsSome(value_stream_connections[i][0])
       /\ value_stream_connections[i][0] = value_stream_connections[i][1]
       /\ instruments[Unwrap(value_stream_connections[i][0]).source_index]
             = Some("Constant")
       /\ \E d \in 0 .. 1 :
             /\ container_input[i][d] = [k \in Samples |-> 2 * ConstantValue]
             /\ container_input[i][1 - d] = ZeroBlock

\* slot u has been taken by this step's loop over the order
ProcessedThisStep(u) == \E p \in 0 .. (oi - 1) : order[p] = u

\* C8: when process_next reads the output of a connection's source for the
\* instrument at hand, the source has already been processed in this step.
C8_SourceProcessedBeforeRead ==
    (pc \in {"feed", "run"} /\ order[oi] # USIZE_MAX) =>
        \A j \in ConnectionEntries :
            IsSome(value_stream_connections[order[oi]][j]) =>
                ProcessedThisStep(
                    Unwrap(value_stream_connections[order[oi]][j]).source_index)

\* first step of a Constant feeding a Delay in a lower slot: the Delay is
\* fed the Constant's block of this step, not the zeros it held before
C8_Witness ==
    /\ pc = "run"
    /\ steps = 0
    /\ order[oi] = 0
    /\ instruments[0] = Some("Delay")
    /\ \E u \in Slots : /\ u > 0
                        /\ instruments[u] = Some("Constant")
                        /\ Edge(u, 0)
    /\ container_input[0][0] = [k \in Samples |-> ConstantValue]

RECURSIVE DestinationSum(_, _, _)
\* sample k of the output blocks of the filled sources of channel o, entries j..
DestinationSum(o, j, k) ==
    IF j = CONNECTION_SIZE THEN 0
    ELSE LET c == destination_connections[o][j] IN
         (IF IsSome(c) /\ Unwrap(c).source_index < SIZE /\ Filled(Unwrap(c).source_index)
          THEN container_output[Unwrap(c).source_index][k] ELSE 0)
         + DestinationSum(o, j + 1, k)

\* C9: after every process_next each output channel holds the element-wise
\* sum, from zero, of the current output blocks of its destination sources.
C9_OutputIsSumOfDestinations ==
    (pc = "idle" /\ steps >= 1) =>
        \A o \in Channels :
            output_channels[o] = [k \in Samples |-> DestinationSum(o, 0, k)]

\* one Constant on channel 0: the channel holds its value after the 2nd step
C9_Witness ==
    /\ pc = "idle"
    /\ steps = 2
    /\ destination_connections[0][0] = Some([source_index |-> 0, source_stream_index |-> 0])
    /\ destination_connections[0][1] = None
    /\ instruments[0] = Some("Constant")
    /\ output_channels[0] = [k \in Samples |-> ConstantValue]

\* C10: each process_next calls fetch_next_stream exactly once on every
\* registered control source, connected or not, before any instrument is fed
\* or processed.
C10_FetchOncePerStep ==
    /\ pc \in {"idle", "order", "order_done"} =>
          \A c \in ControlSlots :
              fetches[c] = IF IsSome(control_sources[c]) THEN steps ELSE 0
    /\ pc \in {"feed", "run", "output"} =>
          \A c \in ControlSlots :
              fetches[c] = IF IsSome(control_sources[c]) THEN steps + 1 ELSE 0

\* second step, first instrument about to be fed: of two registered sources
\* one is bound to an instrument and one to none, both fetched twice
C10_Witness ==
    /\ pc = "feed"
    /\ oi = 0
    /\ steps = 1
    /\ IsSome(control_sources[0]) /\ IsSome(control_sources[1])
    /\ Filled(0)
    /\ \E i \in Slots : instruments_control_sources[i] = Some([source_index |-> 0])
    /\ \A i \in Slots : instruments_control_sources[i] # Some([source_index |-> 1])
    /\ fetches = [c \in ControlSlots |-> 2]

\* a slice as a control input holds it when fed into a cleared one
PadNoop(stream) ==
    [e \in Elements |-> IF e \in DOMAIN stream THEN stream[e] ELSE NoopCommand]

\* C11: in process_next an instrument bound to a registered control source
\* is processed with that source's block of this step's fetch_next_stream
\* in every one of its control inputs; an instrument with no binding, or one
\* bound to an empty control-source slot, with Noop in all of them.
C11_ControlInputIsSourceBlock ==
    pc = "run" =>
        LET i == order[oi]
            connection == instruments_control_sources[i]
        IN \A j \in 0 .. (InControlStreams(Unwrap(instruments[i])) - 1) :
              IF /\ IsSome(connection)
                 /\ IsSome(control_sources[Unwrap(connection).source_index])
              THEN /\ fetches[Unwrap(connection).source_index] = steps + 1
                   /\ container_control[i][j] =
                          PadNoop(control_stream[Unwrap(connection).source_index])
              ELSE container_control[i][j] = NoopStream

\* second step: an envelope about to run with its Sequencer's block of one
\* NoteOff, and an envelope bound to an empty control-source slot
C11_Witness ==
    /\ pc = "run"
    /\ steps = 1
    /\ instruments[order[oi]] = Some("LinearEnvelope")
    /\ \E c \in ControlSlots :
          /\ instruments_control_sources[order[oi]] = Some([source_index |-> c])
          /\ control_sources[c] = Some("Sequencer")
          /\ control_stream[c] = [e \in 0 .. 0 |-> NoteOffCommand]
    /\ container_control[order[oi]][0][0] = NoteOffCommand
    /\ \E i \in Slots, c \in ControlSlots :
          /\ instruments[i] = Some("LinearEnvelope")
          /\ instruments_control_sources[i] = Some([source_index |-> c])
          /\ control_sources[c] = None

\* the feed_control_stream calls of a log onto control input j, in call order
ControlFeeds(log, j) ==
    SelectSeq(log, LAMBDA f : f.call = "feed_control_stream" /\ f.stream_index = j)

\* C12 (as claimed): after two or more feed_control_stream calls on one
\* control input before process_next, the instrument is processed with the
\* last call's commands and Noop behind them: nothing of an earlier call.
C12_LastControlFeedOnly ==
    IsSome(seen) =>
        \A j \in DOMAIN Unwrap(seen).control_streams :
            LET calls == ControlFeeds(Unwrap(seen).feeds, j) IN
            Len(calls) >= 2 =>
                Unwrap(seen).control_streams[j] = PadNoop(calls[Len(calls)].stream)

RECURSIVE FedSum(_, _, _, _)
\* sample k of the slices the first n calls of a log fed onto value input i
FedSum(log, n, i, k) ==
    IF n = 0 THEN 0
    ELSE FedSum(log, n - 1, i, k)
         + (IF /\ log[n].call = "feed_value_stream"
               /\ log[n].stream_index = i
               /\ k \in DOMAIN log[n].stream
            THEN log[n].stream[k] ELSE 0)

\* the accumulators of the held container are the sums of what was fed
FedSumHeld ==
    /\ IsSome(container) =>
          \A i \in DOMAIN Unwrap(container).value_streams :
              Unwrap(container).value_streams[i] =
                  [k \in Samples |-> FedSum(feeds, Len(feeds), i, k)]
    /\ IsSome(seen) =>
          \A i \in DOMAIN Unwrap(seen).value_streams :
              Unwrap(seen).value_streams[i] =
                  [k \in Samples |-> FedSum(Unwrap(seen).feeds, Len(Unwrap(seen).feeds), i, k)]

\* a feed_value_stream call that returns changes its own input stream only
FeedValueStreamFrame ==
    (/\ IsSome(container)
     /\ Len(feeds') = Len(feeds) + 1
     /\ feeds'[Len(feeds')].call = "feed_value_stream") =>
        /\ Unwrap(container').output = Unwrap(container).output
        /\ Unwrap(container').control_streams = Unwrap(container).control_streams
        /\ Unwrap(container').instrument = Unwrap(container).instrument
        /\ \A d \in DOMAIN Unwrap(container).value_streams :
              d # feeds'[Len(feeds')].stream_index =>
                  Unwrap(container').value_streams[d] = Unwrap(container).value_streams[d]

\* C13: the block an instrument is processed with on value input i is the
\* element-wise sum of all slices fed to i since the previous process_next,
\* and a feed to i changes neither another input nor the output block.
C13_ValueFeedIsAdditive == []FedSumHeld /\ [][FeedValueStreamFrame]_vars

\* a Mixer processed after the ramp 1, 2, .. was fed twice to input 0: it saw
\* 2, 4, .. on input 0 and 0 on input 1, and put out 2, 4, ..
C13_Witness ==
    /\ IsSome(seen)
    /\ Unwrap(container).kind = "Mixer"
    /\ Len(Unwrap(seen).feeds) = 2
    /\ \A n \in 1 .. 2 :
          /\ Unwrap(seen).feeds[n].call = "feed_value_stream"
          /\ Unwrap(seen).feeds[n].stream_index = 0
          /\ Unwrap(seen).feeds[n].stream = [k \in Samples |-> 1 + k]
    /\ Unwrap(seen).value_streams[0] = [k \in Samples |-> 2 + 2 * k]
    /\ Unwrap(seen).value_streams[1] = ZeroBlock
    /\ Unwrap(container).output = [k \in Samples |-> 2 + 2 * k]

\* the input accumulators of the container in slot i are cleared
CleanInput(i) ==
    /\ container_input[i] = [d \in DOMAIN container_input[i] |-> ZeroBlock]
    /\ container_control[i] = [j \in DOMAIN container_control[i] |-> NoopStream]

\* the output block of the container in slot i is the one its instrument produced
OutputAsProduced(i) ==
    CASE instruments[i] = Some("Constant") ->
           container_output[i] = [k \in Samples |-> ConstantValue]
      [] instruments[i] = Some("Mixer") ->
           container_output[i] =
               [k \in Samples |-> SourceSum(i, 0, 0, k) + SourceSum(i, 1, 0, k)]
      [] instruments[i] = Some("LinearEnvelope") ->
           container_instrument[i].current_point = 1 =>
               container_output[i][STANDARD_BLOCK_SIZE - 1] =
                   container_instrument[i].current_note_gain
      [] OTHER -> TRUE

\* C14: after every container process_next its value accumulators are 0 and
\* its control accumulators Noop, the output block being left as produced;
\* so a filled container's inputs are dirty only between its feeding and its
\* processing, and after a graph process_next every filled container is clean.
C14_InputsClearedAfterProcess ==
    \A i \in Slots :
        Filled(i) =>
            /\ CleanInput(i) \/ (pc = "run" /\ order[oi] = i)
            /\ (ProcessedThisStep(i) \/ (pc = "idle" /\ steps >= 1)) => OutputAsProduced(i)

\* the second step done: an envelope that was fed a NoteOn by its source
\* is clean again and holds the block it put out, beside a Constant
C14_Witness ==
    /\ pc = "idle"
    /\ steps = 2
    /\ \E i \in Slots, u \in Slots :
          /\ instruments[i] = Some("LinearEnvelope")
          /\ IsSome(instruments_control_sources[i])
          /\ container_instrument[i].current_point = 1
          /\ CleanInput(i)
          /\ container_output[i] = [k \in Samples |-> One]
          /\ instruments[u] = Some("Constant")
          /\ container_output[u] = [k \in Samples |-> ConstantValue]

\* the filled entries of a slot array
FilledSlots(arr) == {i \in DOMAIN arr : IsSome(arr[i])}

\* a step filling a slot of arr fills its lowest free one, the k-th call
\* filling and returning k-1, and touches no other slot
FillsLowestFree(arr, arr_after) ==
    arr_after # arr =>
        LET k == Cardinality(FilledSlots(arr)) IN
        /\ FilledSlots(arr) = 0 .. (k - 1)
        /\ FilledSlots(arr_after) = 0 .. k
        /\ \A i \in FilledSlots(arr) : arr_after[i] = arr[i]
        /\ returned' = Some(k)

\* add_instrument and add_control_source as the steps of the model show them
AddSlotStep ==
    /\ FillsLowestFree(instruments, instruments')
    /\ FillsLowestFree(control_sources, control_sources')
    /\ instruments' # instruments =>
          UNCHANGED <<control_sources, instruments_control_sources,
                      value_stream_connections, destination_connections>>
    /\ control_sources' # control_sources =>
          UNCHANGED <<instruments, instruments_control_sources,
                      value_stream_connections, destination_connections>>
    /\ (panic_at = "none" /\ panic_at' = "add_instrument") =>
          /\ FilledSlots(instruments) = Slots
          /\ UNCHANGED <<graph_vars, returned>>
    /\ (panic_at = "none" /\ panic_at' = "add_control_source") =>
          /\ FilledSlots(control_sources) = ControlSlots
          /\ UNCHANGED <<graph_vars, returned>>
    /\ (FilledSlots(instruments) = Slots /\ call = "none") => instruments' = instruments
    /\ (FilledSlots(control_sources) = ControlSlots /\ call = "none") =>
          control_sources' = control_sources

\* C15: add_instrument and add_control_source store into the lowest free
\* slot and return its index, the k-th successful call returning k-1; with
\* all slots filled the call fails and changes no slot or connection table.
C15_AddFillsLowestFreeSlot == [][AddSlotStep]_vars

\* add_control_source has failed on the full array, after the call before
\* it returned the last slot, an instrument being bound already
C15_Witness ==
    /\ panic_at = "add_control_source"
    /\ returned = Some(CONTROL_SIZE - 1)
    /\ FilledSlots(control_sources) = ControlSlots
    /\ FilledSlots(instruments) = {0}
    /\ IsSome(instruments_control_sources[0])

\* a step changing the connection lists appends one edge to one
\* destination's list, at its first free entry
ConnectStep ==
    value_stream_connections' # value_stream_connections =>
        \E d \in Slots :
            LET list == value_stream_connections[d]
                k == Cardinality(FilledSlots(list))
            IN /\ FilledSlots(list) = 0 .. (k - 1)
               /\ k < CONNECTION_SIZE
               /\ FilledSlots(value_stream_connections'[d]) = 0 .. k
               /\ \A j \in FilledSlots(list) : value_stream_connections'[d][j] = list[j]
               /\ \A other \in Slots \ {d} :
                     value_stream_connections'[other] = value_stream_connections[other]

\* the capacity error comes with the destination's list full, and changes nothing
ConnectFailStep ==
    (panic_at = "none" /\ panic_at' = NoMoreSpacePanic) =>
        /\ \E d \in Slots : FilledSlots(value_stream_connections[d]) = ConnectionEntries
        /\ UNCHANGED graph_vars

\* a destination with a free entry accepts a connection, whatever the
\* other destinations' lists hold
ConnectAccepted ==
    \A d \in Slots :
        (InSetup /\ FilledSlots(value_stream_connections[d]) # ConnectionEntries) =>
            ENABLED (connect_value_stream(d, 0, d, 0) /\ pc' = "idle")

\* C16: connect_value_stream records the edge in the first free entry of
\* the destination's list and leaves the other lists unchanged; the
\* (CONNECTION_SIZE+1)-th connection into one destination fails without
\* altering the list, while other destinations still accept connections.
C16_ConnectAppendsOrFails ==
    []ConnectAccepted /\ [][ConnectStep /\ ConnectFailStep]_vars

\* the third connection into slot 0 has failed on its full list, the list of
\* slot 1 being empty
C16_Witness ==
    /\ panic_at = NoMoreSpacePanic
    /\ FilledSlots(value_stream_connections[0]) = ConnectionEntries
    /\ FilledSlots(value_stream_connections[1]) = {}

\* connect_control_source(c, i), called in this state, returns with slot i
\* bound to c and to nothing else, every other binding as it was
Rebinds(c, i) ==
    ENABLED (/\ connect_control_source(c, i)
             /\ pc' = "idle"
             /\ instruments_control_sources'[i] = Some([source_index |-> c])
             /\ \A other \in Slots \ {i} :
                   instruments_control_sources'[other] = instruments_control_sources[other])

\* a step changing the bindings changes the binding of one instrument
BindStep ==
    instruments_control_sources' # instruments_control_sources =>
        \E i \in Slots :
            /\ IsSome(instruments_control_sources'[i])
            /\ \A other \in Slots \ {i} :
                  instruments_control_sources'[other] = instruments_control_sources[other]

\* C17: connect_control_source overwrites any prior binding of the
\* instrument: a slot is bound to the source of the most recent call for
\* it, and the call leaves the bindings of the other instruments unchanged.
C17_BindingOverwritten ==
    /\ [](InSetup => \A c \in ControlSlots, i \in Slots : Rebinds(c, i))
    /\ [][BindStep]_vars

\* both instrument slots hold a binding, to different control sources, and
\* further connect_control_source calls may follow
C17_Witness ==
    /\ InSetup
    /\ instruments_control_sources[0] = Some([source_index |-> 1])
    /\ instruments_control_sources[1] = Some([source_index |-> 0])

\* a filled slot, and a stored connection record, is the same after the step
SlotsKept ==
    /\ \A i \in Slots : IsSome(instruments[i]) => instruments'[i] = instruments[i]
    /\ \A c \in ControlSlots :
          IsSome(control_sources[c]) => control_sources'[c] = control_sources[c]
    /\ \A i \in Slots, j \in ConnectionEntries :
          IsSome(value_stream_connections[i][j]) =>
              value_stream_connections'[i][j] = value_stream_connections[i][j]
    /\ \A o \in Channels, j \in ConnectionEntries :
          IsSome(destination_connections[o][j]) =>
              destination_connections'[o][j] = destination_connections[o][j]

\* C18: once add_instrument has filled slot i, the slot holds the same
\* instrument after every add_*, connect_* and process_next step, and the
\* stored connection records stay as they are: they keep designating the
\* same instruments.
C18_SlotsStable == [][SlotsKept]_vars

\* two steps made on a Constant in slot 0 wired into a Mixer in slot 1 that
\* feeds channel 0: the channel still gets the Constant's value
C18_Witness ==
    /\ pc = "idle"
    /\ steps = 2
    /\ instruments[0] = Some("Constant")
    /\ instruments[1] = Some("Mixer")
    /\ Edge(0, 1)
    /\ IsSome(instruments_control_sources[1])
    /\ destination_connections[0][0] = Some([source_index |-> 1, source_stream_index |-> 0])
    /\ output_channels[0] = [k \in Samples |-> ConstantValue]

\* the segments of an envelope, numbered as current_point numbers them
Segments(self) == 1 .. POINTS(self)

\* the duration of segment p
Duration(self, p) == self.point_times[p - 1]

\* the first segment whose duration is nonzero, the last one if there is none
FirstLasting(self) ==
    LET lasting == {p \in Segments(self) : Duration(self, p) # 0} IN
    IF lasting = {} THEN POINTS(self)
    ELSE CHOOSE p \in lasting : \A q \in lasting : p <= q

\* the command loop applies a NoteOn in this step
NoteOnApplied ==
    /\ envelope_pc = "commands"
    /\ envelope_input[envelope_i].command_type = "NoteOn"
    /\ envelope_i' = envelope_i + 1

NoteOnStep ==
    NoteOnApplied =>
        LET self == Unwrap(envelope')
            chosen == FirstLasting(self)
        IN /\ self.current_time = 0
           /\ self.current_note_gain = Frac(envelope_input[envelope_i].velocity, 255)
           /\ POINTS(self) >= 1 => self.current_point = chosen
           /\ self.current_gain = IF POINTS(self) >= 1 /\ chosen > 1
                                  THEN self.point_gains[chosen - 2]
                                  ELSE Zero

\* C19: a NoteOn, whatever state the envelope is in, sets current_time to 0 and
\* current_note_gain to velocity/255, moves current_point to the first segment
\* of nonzero duration (the last segment if there is none), and sets
\* current_gain to the target gain of the segment before the chosen one if a
\* segment was skipped and to 0 otherwise.
C19_NoteOnRestarts == [][NoteOnStep]_vars

\* a NoteOn at velocity 51 has just been applied to an envelope that the
\* block before had left sounding; it skipped the instantaneous first segment
\* of three and seeded the gain from it
C19_Witness ==
    /\ IsSome(envelope)
    /\ blocks >= 1
    /\ envelope_pc = "commands"
    /\ envelope_i = 1
    /\ envelope_input[0] = NoteOnCommand(51)
    /\ envelope_output[STANDARD_BLOCK_SIZE - 1] # Zero
    /\ POINTS(Unwrap(envelope)) = 3
    /\ Unwrap(envelope).point_times[0] = 0
    /\ Unwrap(envelope).current_point = 2
    /\ Unwrap(envelope).current_time = 0
    /\ Unwrap(envelope).current_note_gain = Frac(1, 5)
    /\ Unwrap(envelope).current_gain = Unwrap(envelope).point_gains[0]

\* the envelope is in one of its segments (neither off nor releasing)
Playing(self) == self.current_point \in Segments(self)

\* C20: while the envelope is playing, every segment of nonzero duration
\* before the current one has been played, since the NoteOn, for exactly its
\* duration in samples, no segment after the current one has been played, and
\* the current one has not been played beyond its duration unless it is the
\* last, which sustains.
C20_LastingSegmentsPlayedInFull ==
    (IsSome(envelope) /\ Playing(Unwrap(envelope))) =>
        LET self == Unwrap(envelope) IN
        \A p \in Segments(self) :
            /\ (p < self.current_point /\ Duration(self, p) # 0)
                   => played[p] = Duration(self, p)
            /\ p > self.current_point => played[p] = 0
            /\ (p = self.current_point /\ p < POINTS(self))
                   => played[p] <= Duration(self, p)

\* the envelope is in its release ramp
Releasing(self) == self.current_point = POINTS(self) + 1

\* the command loop applies a NoteOff in this step
NoteOffApplied ==
    /\ envelope_pc = "commands"
    /\ envelope_input[envelope_i].command_type = "NoteOff"
    /\ envelope_i' = envelope_i + 1

NoteOffStep ==
    NoteOffApplied =>
        LET self == Unwrap(envelope)
            after == Unwrap(envelope')
        IN IF Playing(self)
           THEN after = [self EXCEPT !.current_point = POINTS(self) + 1,
                                     !.current_time = 0]
           ELSE after = self

\* C21: a NoteOff moves the envelope to releasing with current_time 0, and
\* changes nothing else, if it is in a playing segment; in the off state and in
\* the releasing state it changes no field.
C21_NoteOffOnlyWhilePlaying == [][NoteOffStep]_vars

\* a NoteOff has just been applied to an envelope of at least one segment that
\* was one or more samples into its release: the ramp was not restarted
C21_Witness ==
    /\ IsSome(envelope)
    /\ envelope_pc = "commands"
    /\ envelope_i = 1
    /\ envelope_input[0] = NoteOffCommand
    /\ POINTS(Unwrap(envelope)) >= 1
    /\ Releasing(Unwrap(envelope))
    /\ Unwrap(envelope).current_time > 0

\* the sample loop emits one sample in this step
SampleEmitted == envelope_pc = "samples" /\ envelope_k' = envelope_k + 1

\* the sample emitted by this step
EmittedSample == envelope_output'[envelope_k]

\* release samples emitted since the NoteOff (or, without segments, the NoteOn)
Released(self) == played[POINTS(self) + 1]

Off(self) == self.current_point = 0 /\ self.current_time = 0

ReleaseSampleStep ==
    LET self == Unwrap(envelope)
        after == Unwrap(envelope')
        R == self.release_time
        k == Released(self)
    IN (SampleEmitted /\ POINTS(self) >= 1 /\ R >= 1 /\ Releasing(self)) =>
          /\ k < R
          /\ EmittedSample = FMul(FMul(release_gain, self.current_note_gain),
                                  FSub(One, Frac(k, R)))
          /\ IF k + 1 = R THEN Off(after) ELSE Releasing(after)

\* C22: after a NoteOff taken in a playing segment, with release_time R >= 1,
\* the k-th release sample is g0 * note_gain * (1 - k/R), g0 being current_gain
\* at the NoteOff, and the envelope is off (current_point 0, current_time 0)
\* after the R-th release sample and not before, across block boundaries.
C22_ReleaseRamp == [][ReleaseSampleStep]_vars

\* the last sample of a release of MaxReleaseTime samples from a nonzero gain
\* was emitted as the first sample of the block after the NoteOff's; it is a
\* MaxReleaseTime-th of the first release sample and the envelope is now off
C22_Witness ==
    /\ IsSome(envelope)
    /\ POINTS(Unwrap(envelope)) >= 1
    /\ Unwrap(envelope).release_time = MaxReleaseTime
    /\ envelope_pc = "samples"
    /\ envelope_k = 1
    /\ \A e \in Elements : envelope_input[e] = NoopCommand
    /\ Released(Unwrap(envelope)) = MaxReleaseTime
    /\ Off(Unwrap(envelope))
    /\ release_gain # Zero
    /\ envelope_output[0] = FMul(FMul(release_gain, Unwrap(envelope).current_note_gain),
                                 Frac(1, MaxReleaseTime))

OnePointSampleStep ==
    LET self == Unwrap(envelope)
        after == Unwrap(envelope')
        T == Duration(self, 1)
        G == self.point_gains[0]
        t == played[1]
    IN (SampleEmitted /\ POINTS(self) = 1 /\ T >= 1 /\ Playing(self)) =>
          /\ EmittedSample = IF t < T
                             THEN FMul(FMul(G, self.current_note_gain), Frac(t, T))
                             ELSE FMul(G, self.current_note_gain)
          /\ Playing(after)

\* C23: for an envelope of one segment of T >= 1 samples and gain G, the t-th
\* sample after the NoteOn is G * note_gain * t / T for t < T and G * note_gain
\* for every t >= T, and the envelope stays in its segment, until a NoteOff.
C23_OnePointRampThenSustain == [][OnePointSampleStep]_vars

\* a one-segment envelope held for more than a block past the end of its ramp:
\* the block just emitted is G * note_gain throughout
C23_Witness ==
    /\ IsSome(envelope)
    /\ POINTS(Unwrap(envelope)) = 1
    /\ Duration(Unwrap(envelope), 1) = MaxPointTime
    /\ Playing(Unwrap(envelope))
    /\ envelope_pc = "idle"
    /\ played[1] > MaxPointTime + STANDARD_BLOCK_SIZE
    /\ Unwrap(envelope).current_note_gain = Frac(1, 5)
    /\ \A k \in Samples :
          envelope_output[k] = FMul(Unwrap(envelope).point_gains[0], Frac(1, 5))

\* the command loop applies a command other than NoteOn in this step
OtherCommandApplied ==
    /\ envelope_pc = "commands"
    /\ envelope_input[envelope_i].command_type # "NoteOn"
    /\ envelope_i' = envelope_i + 1

OffStep ==
    (IsSome(envelope) /\ Unwrap(envelope).current_point = 0) =>
        /\ SampleEmitted => (EmittedSample = Zero /\ envelope' = envelope)
        /\ OtherCommandApplied => envelope' = envelope

\* C24: in the off state every emitted sample is 0 and leaves the state as it
\* is, and so do NoteOff and Noop: the envelope stays off until a NoteOn.
C24_OffStaysOff == [][OffStep]_vars

\* an envelope with segments, released from a nonzero gain to the end of its
\* ramp, was then given a NoteOff and emitted a whole block of zeros
C24_Witness ==
    /\ IsSome(envelope)
    /\ POINTS(Unwrap(envelope)) >= 1
    /\ Unwrap(envelope).current_point = 0
    /\ Unwrap(envelope).current_note_gain # Zero
    /\ release_gain # Zero
    /\ Released(Unwrap(envelope)) = MaxReleaseTime
    /\ envelope_pc = "idle"
    /\ blocks >= 1
    /\ envelope_input[0] = NoteOffCommand
    /\ \A k \in Samples : envelope_output[k] = Zero

ZeroPointStep ==
    LET self == Unwrap(envelope)
        after == Unwrap(envelope')
        R == self.release_time
        k == Released(self)
    IN (IsSome(envelope) /\ POINTS(self) = 0) =>
          /\ NoteOnApplied =>
                /\ Releasing(after)
                /\ after.current_time = 0
                /\ after.current_note_gain = Frac(envelope_input[envelope_i].velocity, 255)
          /\ NoteOffApplied => after = self
          /\ (SampleEmitted /\ Releasing(self) /\ R >= 1) =>
                /\ k < R
                /\ EmittedSample = FMul(self.current_note_gain, FSub(One, Frac(k, R)))
                /\ IF k + 1 = R THEN Off(after) ELSE Releasing(after)
          /\ (SampleEmitted /\ R = 0) => (EmittedSample = Zero /\ Off(after))
          /\ (SampleEmitted /\ Off(self)) => (EmittedSample = Zero /\ Off(after))

\* C25: an envelope without segments is put into the releasing state by a
\* NoteOn, at the full note gain: with release_time R >= 1 its k-th sample is
\* note_gain * (1 - k/R) for k < R and it is off after the R-th; with
\* release_time 0 every sample is 0; a NoteOff changes nothing.
C25_ZeroPointGate == [][ZeroPointStep]_vars

\* an envelope without segments has emitted the last sample of its release,
\* at velocity 51, as the first sample of the block after the NoteOn's block
C25_Witness ==
    /\ IsSome(envelope)
    /\ POINTS(Unwrap(envelope)) = 0
    /\ Unwrap(envelope).release_time = MaxReleaseTime
    /\ Unwrap(envelope).current_note_gain = Frac(1, 5)
    /\ envelope_pc = "samples"
    /\ envelope_k = 1
    /\ Released(Unwrap(envelope)) = MaxReleaseTime
    /\ Off(Unwrap(envelope))
    /\ envelope_input[0] = NoteOffCommand
    /\ envelope_output[0] = FMul(Frac(1, 5), Frac(1, MaxReleaseTime))

\* C26: the n-th output sample of a Delay over its lifetime is its (n - d)-th
\* input sample, and 0 for n < d, across block boundaries and for every delay
\* d it can be given; buffer_index stays within 0 .. d.
C26_DelayedByD ==
    IsSome(delay_line) =>
        LET self == Unwrap(delay_line) IN
        /\ self.buffer_index \in 0 .. self.delay
        /\ Len(delay_got) = Len(delay_fed)
        /\ \A n \in 1 .. Len(delay_got) :
              delay_got[n] = IF n > self.delay THEN delay_fed[n - self.delay] ELSE 0

\* a Delay of the largest delay, longer than a block, has put out its first
\* input sample in a later block, after MaxDelay zeros
C26_Witness ==
    /\ IsSome(delay_line)
    /\ Unwrap(delay_line).delay = MaxDelay
    /\ MaxDelay > STANDARD_BLOCK_SIZE
    /\ Len(delay_got) = MaxDelay + 2
    /\ \A n \in 1 .. MaxDelay : delay_got[n] = 0
    /\ delay_fed[1] = 2 /\ delay_got[MaxDelay + 1] = 2
    /\ delay_fed[2] = 1 /\ delay_got[MaxDelay + 2] = 1

\* C27: after every sample the oscillator has processed, phase is in [0, 1).
C27_PhaseInUnitInterval ==
    (IsSome(oscillator) /\ osc_pc \in {"idle", "accumulate", "emit"}) =>
        /\ ~FLess(Unwrap(oscillator).phase, Zero)
        /\ FLess(Unwrap(oscillator).phase, One)

RECURSIVE FirstPointReads(_, _)
\* the indices of point_times read by `while POINTS > i && point_times[i - 1] == 0`
FirstPointReads(self, i) ==
    IF POINTS(self) > i
    THEN {i - 1} \cup (IF self.point_times[i - 1] = 0
                        THEN FirstPointReads(self, i + 1) ELSE {})
    ELSE {}

\* the indices of point_times and point_gains a NoteOn reads
NoteOnReads(self) ==
    LET i == FirstPoint(self, 1) IN
    FirstPointReads(self, 1) \cup (IF i > 1 THEN {i - 2} ELSE {})

RECURSIVE SkipPointsReads(_, _)
\* the indices read by `while current_point < POINTS && point_times[current_point] == 0`
SkipPointsReads(self, c) ==
    IF c < POINTS(self)
    THEN {c} \cup (IF self.point_times[c] = 0 THEN SkipPointsReads(self, c + 1) ELSE {})
    ELSE {}

\* the indices of point_times and point_gains the next sample reads
SampleReads(self) ==
    IF self.current_point = 0 \/ self.current_point > POINTS(self) THEN {}
    ELSE LET c == self.current_point
             here == {c - 1} \cup (IF c > 1 THEN {c - 2} ELSE {})
         IN IF (c - 1) \in DOMAIN self.point_times
                /\ self.current_time + 1 >= self.point_times[c - 1]
            THEN here \cup SkipPointsReads(self, IF c < POINTS(self) THEN c + 1 ELSE c)
            ELSE here

\* C28: current_point is in 0 .. POINTS + 1, and every index at which the
\* command or sample about to be processed reads point_times or point_gains is
\* below POINTS, for every envelope, those without segments included.
C28_IndicesInRange ==
    IsSome(envelope) =>
        LET self == Unwrap(envelope)
            InRange == 0 .. (POINTS(self) - 1)
        IN /\ self.current_point \in 0 .. (POINTS(self) + 1)
           /\ (envelope_pc = "commands" /\ envelope_input[envelope_i].command_type = "NoteOn")
                 => NoteOnReads(self) \subseteq InRange
           /\ envelope_pc = "samples" => SampleReads(self) \subseteq InRange

\* the sample about to be emitted ends the first segment of an envelope of
\* MaxPoints segments and reads up to the last element of point_times
C28_Witness ==
    /\ IsSome(envelope)
    /\ POINTS(Unwrap(envelope)) = MaxPoints
    /\ envelope_pc = "samples"
    /\ Unwrap(envelope).current_point = 1
    /\ (MaxPoints - 1) \in SampleReads(Unwrap(envelope))
    /\ 0 \in SampleReads(Unwrap(envelope))

\* the element index of the last command of the block of this type, -1 if none
LastCommand(command_type) ==
    LET at == {e \in Elements : envelope_input[e].command_type = command_type} IN
    IF at = {} THEN 0 - 1 ELSE CHOOSE e \in at : \A f \in at : f <= e

\* C29: no sample of a block is emitted before every command of the block has
\* been applied, and the state entering the sample loop is the one the
\* commands leave when applied in increasing element order: releasing if the
\* last NoteOn is followed by a NoteOff, playing (releasing for an envelope
\* without segments) if the last NoteOn follows every NoteOff, in both cases
\* at time 0 and at the NoteOn's velocity; a NoteOn in the last element
\* already determines the first sample.
C29_CommandsBeforeSamples ==
    (IsSome(envelope) /\ envelope_pc = "samples") =>
        LET self == Unwrap(envelope)
            on == LastCommand("NoteOn")
            off == LastCommand("NoteOff")
        IN /\ envelope_i = STANDARD_ELEMENT_COUNT
           /\ (envelope_k = 0 /\ on >= 0) =>
                 /\ self.current_time = 0
                 /\ self.current_note_gain = Frac(envelope_input[on].velocity, 255)
                 /\ IF off > on \/ POINTS(self) = 0
                    THEN Releasing(self)
                    ELSE Playing(self)
           /\ (/\ envelope_k = 1
               /\ on = STANDARD_ELEMENT_COUNT - 1
               /\ POINTS(self) = 0
               /\ self.release_time >= 1) =>
                 envelope_output[0] = Frac(envelope_input[on].velocity, 255)

\* an envelope with segments enters the sample loop of a block that was
\* NoteOn at velocity 51, then NoteOff: it is releasing
C29_Witness ==
    /\ IsSome(envelope)
    /\ POINTS(Unwrap(envelope)) >= 1
    /\ envelope_pc = "samples"
    /\ envelope_k = 0
    /\ envelope_input[0] = NoteOnCommand(51)
    /\ envelope_input[1] = NoteOffCommand
    /\ LastCommand("NoteOn") = 0
    /\ LastCommand("NoteOff") > 0
    /\ Releasing(Unwrap(envelope))
    /\ Unwrap(envelope).current_note_gain = Frac(1, 5)

\* a process_next call has ended, by returning or by panicking
ProcessNextEnded ==
    \/ pc = "idle" /\ steps >= 1
    \/ /\ pc = "panicked"
       /\ call = "process_next"
       /\ panic_at \in {UnwrapPanic, SlotIndexPanic, StreamIndexPanic}

\* C30: in every process_next, the container of each filled slot is processed
\* exactly once and none is processed for an unfilled slot.
C30_EachFilledSlotProcessedOnce ==
    /\ \A i \in Slots : runs[i] <= (IF Filled(i) THEN 1 ELSE 0)
    /\ ProcessNextEnded => \A i \in Slots : Filled(i) => runs[i] = 1

\* the block of the registered control source instrument i is bound to is
\* shorter than STANDARD_ELEMENT_COUNT
ShortBlockBound(i) ==
    /\ IsSome(instruments[i])
    /\ InControlStreams(Unwrap(instruments[i])) > 0
    /\ IsSome(instruments_control_sources[i])
    /\ LET c == Unwrap(instruments_control_sources[i]).source_index IN
          /\ IsSome(control_sources[c])
          /\ Cardinality(DOMAIN control_stream[c]) < STANDARD_ELEMENT_COUNT

\* graph.rs:216 is taken for the instrument of order[oi]
InstrumentRun == pc = "run" /\ pc' # "run"

\* C31: when the control source an instrument is bound to holds a block
\* shorter than STANDARD_ELEMENT_COUNT, the instrument's process_block of
\* that graph step is given, in each control input, the block's commands in
\* the first elements and Noop in every element behind them (nothing of an
\* earlier step), and its state and output are those of that input.
C31_ShortBlockThenNoop ==
    [][InstrumentRun /\ ShortBlockBound(order[oi]) =>
          LET i == order[oi]
              stream == control_stream[Unwrap(instruments_control_sources[i]).source_index]
              len == Cardinality(DOMAIN stream)
              given == [j \in DOMAIN container_control[i] |->
                           [e \in Elements |->
                               IF e < len THEN stream[e] ELSE NoopCommand]]
              r == ContainerProcessBlock(Unwrap(instruments[i]),
                                         container_instrument[i], container_input[i],
                                         given, container_output[i])
          IN /\ container_control[i] = given
             /\ container_instrument'[i] = r.state
             /\ container_output'[i] = r.output]_vars

\* second step: an envelope that the first step's full block <<NoteOn, NoteOff>>
\* left releasing is about to run with its Sequencer's block of one NoteOn
C31_Witness ==
    /\ pc = "run"
    /\ steps = 1
    /\ ShortBlockBound(order[oi])
    /\ instruments[order[oi]] = Some("LinearEnvelope")
    /\ Releasing(container_instrument[order[oi]])
    /\ control_sources[Unwrap(instruments_control_sources[order[oi]]).source_index]
           = Some("Sequencer")
    /\ control_stream[Unwrap(instruments_control_sources[order[oi]]).source_index]
           = [e \in 0 .. 0 |-> NoteOnCommand(255)]
    /\ container_control[order[oi]][0][0] = NoteOnCommand(255)
    /\ \A e \in Elements \ {0} : container_control[order[oi]][0][e] = NoopCommand

\* C32 (as claimed): a trigger the input thread has stored, and that no
\* fetch_next_stream has answered with a NoteOn, is still in the flag: the
\* reset of fetch_next_stream never overwrites it, so the next load finds it.
C32_TriggerNeverLost == unread => signal
====
